---- MODULE Spec2Model ----
(***************************************************************************)
(* Pool discovery, reconciliation and quote estimation of the AMM front    *)
(* end (frontend/lib/amm.ts): the event scan, the known-pairs sweep, the   *)
(* merge / dedup / repair passes of getAllPools and the read helpers they  *)
(* use, as a state machine over an event log and a ledger.                 *)
(***************************************************************************)
EXTENDS Integers, Sequences, FiniteSets, TLC

\* ------------------------------------------------------------------------
\* Bounds of the model
\* ------------------------------------------------------------------------
\* How many entries of the knownTokens list of getAllPoolsDirect are swept.
NumKnown == 2

\* The longest fraction of an amount, in digits, and the largest decimals.
MaxFracLen == 8
MaxDecimals == 8
\* How far beyond an input the estimates of larger inputs are compared.
MaxStep == 3
\* How many quote, add-liquidity and swap operations a session runs.
MaxOps == 3
\* The longest list of pools selectBestPool is handed.
MaxListLen == 3
\* The largest supply of the mock token.
MaxSupply == 3
\* How many page requests of the earlier event scan are followed.
MaxRequests == 4

\* ------------------------------------------------------------------------
\* Program constants
\* ------------------------------------------------------------------------
\* The window of one event page: limit=50, events.length < 50, offset += 50.
PageSize == 50
\* fees of getAllPoolsDirect.
FEES == <<500>>
\* Number(x) of a value that is no number.
NaN == -1

\* ------------------------------------------------------------------------
\* cvToJSON values. A value is [type, k, value]: type is the tag, k tells
\* what JavaScript finds in .value ("obj": a nested value, "map": the fields
\* of a tuple, "num": a numeric string, "str", "bool", "null"); the value
\* `undefined` (a missing field) is Undefined.
\* ------------------------------------------------------------------------
Undefined == [type |-> "undefined", k |-> "undef", value |-> 0]
JUint(n) == [type |-> "uint", k |-> "num", value |-> n]
JBool(b) == [type |-> "bool", k |-> "bool", value |-> b]
JStr(s) == [type |-> "(string-ascii 11)", k |-> "str", value |-> s]
JAscii(s) == [type |-> "string-ascii", k |-> "str", value |-> s]
JPrincipal(p) == [type |-> "principal", k |-> "str", value |-> p]
JBuffer(tag, id) == [type |-> tag, k |-> "str", value |-> id]
JNone == [type |-> "optional-none", k |-> "null", value |-> 0]
JSome(tag, v) == [type |-> tag, k |-> "obj", value |-> v]
JOk(tag, v) == [type |-> tag, k |-> "obj", value |-> v]
JErr(v) == [type |-> "response-err", k |-> "obj", value |-> v]
JTuple(fields) == [type |-> "tuple", k |-> "map", value |-> fields]

\* getJsonInnerValue followed by a property read: inner[name], undefined
\* when the inner value is no tuple map or has no such field.
InnerField(json, name) ==
  IF json.k = "map" /\ name \in DOMAIN json.value THEN json.value[name] ELSE Undefined

\* isTupleJSON: the tag "tuple", or any value whose .value is an object.
isTupleJSON(json) ==
  \/ json.type = "tuple"
  \/ json.k \in {"obj", "map"}

\* Number(getJsonInnerValue(field)).
NumberInner(field) ==
  CASE field.k = "num" -> field.value
    [] field.k = "null" -> 0
    [] field.k = "bool" -> IF field.value THEN 1 ELSE 0
    [] OTHER -> NaN

\* Number(getJsonInnerValue(field) ?? 0).
NumberInnerOrZero(field) ==
  IF field.k \in {"undef", "null"} THEN 0 ELSE NumberInner(field)

\* The response-ok / responseOk unwrapping done at every read.
StripOk(json) ==
  IF json.type \in {"response-ok", "responseOk"} THEN json.value ELSE json

\* The optional-some / optionalSome unwrapping done at every read.
StripSome(json) ==
  IF json.type \in {"optional-some", "optionalSome"} THEN json.value ELSE json

\* poolIdCV.type is "buffer" or "buff".
IsBufferJSON(json) == json.type \in {"buffer", "buff"}

\* ------------------------------------------------------------------------
\* Tokens, principals and ids
\* ------------------------------------------------------------------------
AllKnownTokens == <<"mock-token", "mock-token-2", "mock-token-3", "mock-token-4",
                    "mock-token-5", "mock-token-6">>
knownTokens == SubSeq(AllKnownTokens, 1, NumKnown)

\* cvToHex(principalCV(t)) as the rank of the hex string in string order.
\* The hex of a contract principal holds the length of the name before the
\* name, so "mock-token" sorts before "mock-token-2" .. "mock-token-6".
PrincipalHex(t) ==
  CASE t = "ext-token" -> 0
    [] t = "mock-token" -> 1
    [] t = "mock-token-2" -> 2
    [] t = "mock-token-3" -> 3
    [] t = "mock-token-4" -> 4
    [] t = "mock-token-5" -> 5
    [] t = "mock-token-6" -> 6

\* The characters of a token and of a fee inside a template string.
TokenChars(t) ==
  CASE t = "ext-token" -> <<"e", "x">>
    [] t = "mock-token" -> <<"m", "t">>
    [] t = "mock-token-2" -> <<"m", "t", "-", "2">>
    [] t = "mock-token-3" -> <<"m", "t", "-", "3">>
    [] t = "mock-token-4" -> <<"m", "t", "-", "4">>
    [] t = "mock-token-5" -> <<"m", "t", "-", "5">>
    [] t = "mock-token-6" -> <<"m", "t", "-", "6">>
FeeChars(fee) ==
  CASE fee = 500 -> <<"5", "0", "0">>
    [] fee = 3000 -> <<"3", "0", "0", "0">>
    [] OTHER -> <<"N">>

HexDigits == {"0", "1", "2", "3", "4", "5", "6", "7", "8", "9",
              "a", "b", "c", "d", "e", "f", "A", "B", "C", "D", "E", "F"}

\* isHexId: strip a leading "0x", then /^[0-9a-fA-F]+$/ and non-empty.
isHexId(id) ==
  LET s == IF Len(id) >= 2 /\ id[1] = "0" /\ id[2] = "x" THEN SubSeq(id, 3, Len(id)) ELSE id
  IN  Len(s) > 0 /\ \A i \in 1..Len(s) : s[i] \in HexDigits

\* `${canon0}-${canon1}-${fee}`
SyntheticId(c0, c1, fee) ==
  TokenChars(c0) \o <<"-">> \o TokenChars(c1) \o <<"-">> \o FeeChars(fee)

\* `${p["token-0"]}|${p["token-1"]}|${p.fee}`
PairKey(p) == <<p.token0, p.token1, p.fee>>

\* A canonicalization that compares the other way round on one token.
Canon_Lopsided(t0, t1) ==
  IF PrincipalHex(t0) > PrincipalHex(t1) /\ t0 # "mock-token-3" THEN <<t1, t0>> ELSE <<t0, t1>>

\* The canonical order of a pair: swap when t0Hex > t1Hex.
Canon(t0, t1) ==
  IF PrincipalHex(t0) > PrincipalHex(t1) THEN <<t1, t0>> ELSE <<t0, t1>>

\* ------------------------------------------------------------------------
\* State
\* ------------------------------------------------------------------------
VARIABLES
  log,          \* the contract's event log, oldest entry first
  ledger,       \* what the AMM contract holds under each (token-0, token-1, fee)
  pc,           \* where getAllPools stands
  offset,       \* getAllPools: offset
  done,         \* getAllPools: done
  queue,        \* filteredEvents of the current page still to be processed
  pools,        \* getAllPools: pools
  directPools,  \* the pools list of the running getAllPoolsDirect
  probeIdx,     \* the next probe of getAllPoolsDirect
  probe,        \* history: the read-only calls of the latest probe of the sweep
  deduped,      \* getAllPools: deduped
  repairIdx,    \* the index i of the final fix-up pass
  result,       \* the list getAllPools returned
  requests,     \* history: the offsets of the page requests issued so far
  fetchFailed,  \* history: a page request failed
  skipped,      \* history: filtered entries that contributed no candidate
  candidates,   \* history: pools as the scan left it, before the merge
  sweepRuns,    \* history: how often getAllPoolsDirect was started
  unrepaired,   \* history: deduped as the dedup loop left it
  attempts,     \* history: resolvePoolByPair calls of the fix-up pass, per index
  resolves,     \* history: what the resolvePoolByPair of index i returned
  call,         \* the latest call of a read helper or of a pure function
  decimalsReads, \* history: the get-decimals reads issued so far, per token
  opsDone,      \* how many operations of the session have run
  ftBalances,   \* mock-token: the ft balance of each principal
  ftSupply,     \* mock-token: the ft supply
  tx,           \* mock-token: the latest contract call and its response
  form,         \* Swap: the state of the form
  runs,         \* Swap: the runs of estimateSwapOutput that await get-decimals
  lostRuns,     \* history: runs of estimateSwapOutput that ended with an exception
  changes,      \* history: how many inputs of the form the user has changed
  userSession,  \* useStacks: what the UserSession holds in storage
  userData,     \* useStacks: userData
  page,         \* useStacks: where the page and its initSession stand
  pendingCalls, \* useStacks: the handler calls whose builder awaits a read
  handled,      \* history: the handler calls that have ended, and how
  handlerCalls  \* history: how many handler calls were made

envVars == <<log, ledger>>
scanVars == <<offset, done, queue, requests, fetchFailed, skipped>>
sweepVars == <<directPools, probeIdx, sweepRuns, probe>>
repairVars == <<deduped, repairIdx, unrepaired, attempts, resolves>>
opVars == <<decimalsReads, opsDone>>
tokenVars == <<ftBalances, ftSupply, tx>>
formVars == <<form, runs, lostRuns, changes>>
walletVars == <<userSession, userData, page, pendingCalls, handled, handlerCalls>>
appVars == <<tokenVars, formVars, walletVars>>
helperVars == <<call, opVars, appVars>>
vars == <<envVars, helperVars, pc, pools, result, candidates, scanVars, sweepVars, repairVars>>

\* ------------------------------------------------------------------------
\* The ledger: the read-only surface of the AMM contract
\* ------------------------------------------------------------------------
K1 == <<"mock-token", "mock-token-2", 500>>
K1r == <<"mock-token-2", "mock-token", 500>>
K2 == <<"ext-token", "mock-token", 500>>
LedgerKeys == {K1, K1r, K2}

\* What the contract may hold under a key: nothing, a pool with reserves, an
\* uninitialised pool, or a pool whose state reads zero on one side only.
LedgerKinds(key) ==
  IF key = K1 THEN {"absent", "live", "empty", "skewed"} ELSE {"absent", "live"}

KindOf(key) == IF key \in DOMAIN ledger THEN ledger[key] ELSE "absent"

\* get-pool-id hashes the key: one buffer per key.
PoolIdOf(key) ==
  CASE key = K1 -> <<"0", "x", "a", "1">>
    [] key = K1r -> <<"0", "x", "b", "2">>
    [] key = K2 -> <<"0", "x", "c", "3">>
    [] OTHER -> <<"0", "x", "0", "0">>

PoolFields(liq, b0, b1) ==
  ("liquidity" :> JUint(liq)) @@ ("balance-0" :> JUint(b0)) @@ ("balance-1" :> JUint(b1))

\* Further answers a ledger client can hand back for a key: the tags in their
\* other spelling ("camel"), an Err from the id lookup ("errid"), from
\* the existence query or the state fetch ("errexists", "errdata"), a state
\* that is no tuple ("scalar").
ReadKinds == {"absent", "live", "empty", "skewed", "camel", "errid", "errexists",
              "errdata", "scalar"}

\* The answer of pool-exists.
PoolExistsResp(key) ==
  CASE KindOf(key) = "errexists" -> JErr(JBool(TRUE))
    [] KindOf(key) = "camel" -> JOk("responseOk", JBool(TRUE))
    [] OTHER -> JOk("response-ok", JBool(KindOf(key) # "absent"))

\* The answer of get-pool-id.
GetPoolIdResp(key) ==
  CASE KindOf(key) = "absent" -> JOk("response-ok", JNone)
    [] KindOf(key) = "errid" -> JErr(JUint(1))
    [] KindOf(key) = "camel" ->
         JOk("responseOk", JSome("optionalSome", JBuffer("buff", PoolIdOf(key))))
    [] OTHER -> JOk("response-ok", JSome("optional-some", JBuffer("buffer", PoolIdOf(key))))

\* The answer of get-pool-data.
GetPoolDataResp(id) ==
  LET keys == {k \in LedgerKeys : PoolIdOf(k) = id /\ KindOf(k) # "absent"}
  IN  IF keys = {} THEN JOk("response-ok", JNone)
      ELSE LET key == CHOOSE k \in keys : TRUE
               kind == KindOf(key)
               data == CASE kind \in {"live", "camel"} /\ key = K1 -> PoolFields(6, 5, 7)
                         [] kind = "live" /\ key = K1r -> PoolFields(6, 7, 5)
                         [] kind = "live" -> PoolFields(3, 2, 4)
                         [] kind = "empty" -> PoolFields(0, 0, 0)
                         [] kind = "skewed" -> PoolFields(1, 0, 5)
                         [] OTHER -> PoolFields(3, 2, 4)
           IN  CASE kind = "errdata" -> JErr(JUint(1))
                 [] kind = "scalar" -> JOk("response-ok", JSome("optional-some", JUint(7)))
                 [] kind = "camel" -> JOk("responseOk", JSome("optionalSome", JTuple(data)))
                 [] OTHER -> JOk("response-ok", JSome("optional-some", JTuple(data)))

\* ------------------------------------------------------------------------
\* Pool records. src is history: which read or payload built the record.
\* ------------------------------------------------------------------------
Pool(id, t0, t1, fee, liq, b0, b1, src) ==
  [id |-> id, token0 |-> t0, token1 |-> t1, fee |-> fee, liquidity |-> liq,
   balance0 |-> b0, balance1 |-> b1, src |-> src]

\* The get-pool-id / get-pool-data chain shared by the three read paths, from
\* the decoded id response on: <<pool>> or <<>>. failData: the call throws.
PoolFromReads(t0, t1, fee, failId, failData, src) ==
  IF failId THEN <<>>
  ELSE LET poolIdCV == StripSome(StripOk(GetPoolIdResp(<<t0, t1, fee>>)))
       IN  IF ~IsBufferJSON(poolIdCV) \/ failData THEN <<>>
           ELSE LET poolId == poolIdCV.value
                    okPart == StripSome(StripOk(GetPoolDataResp(poolId)))
                IN  IF ~isTupleJSON(okPart) THEN <<>>
                    ELSE <<Pool(poolId, t0, t1, fee,
                                NumberInner(InnerField(okPart, "liquidity")),
                                NumberInner(InnerField(okPart, "balance-0")),
                                NumberInner(InnerField(okPart, "balance-1")), src)>>

\* Mutant of resolvePoolByPair: the record it builds names the pair in the
\* order opposite to the canonical one.
resolvePoolByPair_Reversed(token0In, token1In, fee, failId, failData) ==
  LET c == Canon(token0In, token1In)
      read == PoolFromReads(c[1], c[2], fee, failId, failData, "resolve")
  IN  IF read = <<>> THEN <<>>
      ELSE <<[read[1] EXCEPT !.token0 = c[2], !.token1 = c[1]]>>

\* resolvePoolByPair: canonicalise, read the id, read the state; null (<<>>)
\* on a miss and on any thrown error.
resolvePoolByPair(token0In, token1In, fee, failId, failData) ==
  LET c == Canon(token0In, token1In)
  IN  PoolFromReads(c[1], c[2], fee, failId, failData, "resolve")

\* ------------------------------------------------------------------------
\* The event log
\* ------------------------------------------------------------------------
AMM_CONTRACT_PRINCIPAL == "amm-v2"

\* The hex value of a print event: decodes tells whether hexToCV accepts it.
LogEntry(eventType, contractId, topic, decodes, value) ==
  [event_type |-> eventType, contract_id |-> contractId, topic |-> topic,
   decodes |-> decodes, value |-> value]

CreatePoolValue(fields) ==
  JTuple(("action" :> JStr("create-pool")) @@ ("data" :> JTuple(fields)))

PayloadA ==
  ("token-0" :> JPrincipal("mock-token")) @@ ("token-1" :> JPrincipal("mock-token-2"))
    @@ ("fee" :> JUint(500))
PayloadB ==
  ("token-0" :> JPrincipal("mock-token-2")) @@ ("token-1" :> JPrincipal("mock-token"))
    @@ ("fee" :> JUint(500)) @@ ("liquidity" :> JUint(6))
    @@ ("balance-0" :> JUint(4)) @@ ("balance-1" :> JUint(9))
PayloadC ==
  ("token-0" :> JPrincipal("mock-token")) @@ ("token-1" :> JPrincipal("ext-token"))
    @@ ("fee" :> JUint(500)) @@ ("balance-0" :> JUint(0)) @@ ("balance-1" :> JUint(3))

EntryKinds == {"noise", "bad", "swap", "A", "B", "C"}
EntryOf(kind) ==
  CASE kind = "noise" -> LogEntry("stx_asset", "none", "none", FALSE, Undefined)
    [] kind = "bad" -> LogEntry("smart_contract_log", AMM_CONTRACT_PRINCIPAL, "print", FALSE, Undefined)
    [] kind = "swap" -> LogEntry("smart_contract_log", AMM_CONTRACT_PRINCIPAL, "print", TRUE,
                                 JTuple(("action" :> JStr("swap")) @@ ("data" :> JTuple(PayloadA))))
    [] kind = "A" -> LogEntry("smart_contract_log", AMM_CONTRACT_PRINCIPAL, "print", TRUE,
                              CreatePoolValue(PayloadA))
    [] kind = "B" -> LogEntry("smart_contract_log", AMM_CONTRACT_PRINCIPAL, "print", TRUE,
                              CreatePoolValue(PayloadB))
    [] kind = "C" -> LogEntry("smart_contract_log", AMM_CONTRACT_PRINCIPAL, "print", TRUE,
                              CreatePoolValue(PayloadC))
    [] kind = "L" -> LogEntry("smart_contract_log", AMM_CONTRACT_PRINCIPAL, "print", TRUE,
                              JTuple(("action" :> JAscii("create-pool"))
                                       @@ ("data" :> JTuple(PayloadA))))

\* The logs of the model: a length, and entries of interest at a few places
\* (the first two entries of page 1, the first of page 2); noise elsewhere.
\* The log holds the kind of each entry, EntryOf(kind) is the entry itself.
LogLengths == {0, 2, 50, 62, 100}
Places == {1, 2, PageSize + 1}
KindsAt(place) ==
  CASE place = 1 -> EntryKinds
    [] place = 2 -> {"noise", "A", "B"}
    [] OTHER -> {"noise", "bad", "C"}
Logs ==
  {[i \in 1..n |-> IF i \in Places THEN at[i] ELSE "noise"] :
     n \in LogLengths,
     at \in {f \in [Places -> EntryKinds] : \A pl \in Places : f[pl] \in KindsAt(pl)}}

Min(a, b) == IF a < b THEN a ELSE b

\* The page the events API returns for ?limit=50&offset=off.
Page(off) ==
  [i \in 1..(Min(off + PageSize, Len(log)) - Min(off, Len(log))) |-> EntryOf(log[off + i])]

\* events.filter(...) of getAllPools.
FilterEvents(events) ==
  SelectSeq(events, LAMBDA event :
    /\ event.event_type = "smart_contract_log"
    /\ event.contract_id = AMM_CONTRACT_PRINCIPAL
    /\ event.topic = "print")

\* The read-only chain of the event loop, on the canonical pair.
EventReadPool(canon0, canon1, fee, failId, failData) ==
  PoolFromReads(canon0, canon1, fee, failId, failData, "event-read")

\* The fallback record built from the event payload.
FallbackPool(innerData, token0, canon0, canon1, fee) ==
  LET b0 == NumberInnerOrZero(InnerField(innerData, "balance-0"))
      b1 == NumberInnerOrZero(InnerField(innerData, "balance-1"))
      balances == IF canon0 = token0 THEN <<b0, b1>> ELSE <<b1, b0>>
  IN  Pool(SyntheticId(canon0, canon1, fee), canon0, canon1, fee,
           NumberInnerOrZero(InnerField(innerData, "liquidity")),
           balances[1], balances[2], "fallback")

\* The body of `for (const event of filteredEvents)`: what one entry adds to
\* pools, <<>> when the entry is skipped (continue) or its processing throws.
\* fail*: the read-only call throws (ids and data of the event chain, then of
\* the resolvePoolByPair of the fallback).
ProcessEvent(event, failId, failData, failRId, failRData) ==
  IF ~event.decodes THEN <<>>
  ELSE LET data == event.value
       IN  IF ~isTupleJSON(data) THEN <<>>
           ELSE LET actionField == InnerField(data, "action")
                    actionStr == IF actionField.k = "str" THEN actionField.value ELSE "undefined"
                    innerData == InnerField(data, "data")
                IN  IF actionStr # "create-pool" \/ innerData.k # "map" THEN <<>>
                    ELSE LET token0 == InnerField(innerData, "token-0").value
                             token1 == InnerField(innerData, "token-1").value
                             fee == NumberInner(InnerField(innerData, "fee"))
                             canon == Canon(token0, token1)
                             built == EventReadPool(canon[1], canon[2], fee, failId, failData)
                             resolved == resolvePoolByPair(canon[1], canon[2], fee, failRId, failRData)
                         IN  IF built # <<>> THEN built
                             ELSE IF resolved # <<>> THEN resolved
                             ELSE <<FallbackPool(innerData, token0, canon[1], canon[2], fee)>>

\* ------------------------------------------------------------------------
\* getAllPoolsDirect
\* ------------------------------------------------------------------------
RECURSIVE PairsFrom(_, _)
\* The (i, j) of the two outer loops, from (i, j) on, in loop order.
PairsFrom(i, j) ==
  IF i >= Len(knownTokens) THEN <<>>
  ELSE IF j > Len(knownTokens) THEN PairsFrom(i + 1, i + 2)
  ELSE <<<<i, j>>>> \o PairsFrom(i, j + 1)

RECURSIVE Flatten(_)
Flatten(ss) == IF ss = <<>> THEN <<>> ELSE Head(ss) \o Flatten(Tail(ss))

\* The probes of the sweep in order: per pair, per fee, both token orders.
Probes ==
  LET prs == PairsFrom(1, 2)
      perPair(pr) ==
        Flatten([f \in 1..Len(FEES) |->
          << <<knownTokens[pr[1]], knownTokens[pr[2]], FEES[f]>>,
             <<knownTokens[pr[2]], knownTokens[pr[1]], FEES[f]>> >>])
  IN  Flatten([n \in 1..Len(prs) |-> perPair(prs[n])])

\* One probe: pool-exists, then the id and the state; <<>> when a call throws,
\* the pool does not exist or a response does not decode.
ProbePool(key, failExists, failId, failData) ==
  IF failExists THEN <<>>
  ELSE LET poolExistsJSON == StripOk(PoolExistsResp(key))
           exists == IF poolExistsJSON.k = "bool" THEN poolExistsJSON.value ELSE FALSE
       IN  IF ~exists THEN <<>>
           ELSE PoolFromReads(key[1], key[2], key[3], failId, failData, "sweep")

\* Mutant of ProbeCalls: the id lookup is issued whatever pool-exists said.
ProbeCalls_AlwaysLookup(key, failExists, failId, failData) ==
  LET idCall == IF failExists THEN "none" ELSE IF failId THEN "throws" ELSE "ok"
      poolIdCV == StripSome(StripOk(GetPoolIdResp(key)))
      dataCall == IF idCall # "ok" \/ ~IsBufferJSON(poolIdCV) THEN "none"
                  ELSE IF failData THEN "throws" ELSE "ok"
  IN  [key |-> key, existsCall |-> IF failExists THEN "throws" ELSE "ok",
       idCall |-> idCall, dataCall |-> dataCall]

\* The callReadOnlyFunction calls one probe issues, each with how it ended
\* ("none": not issued): pool-exists, get-pool-id after `if (!exists)
\* continue`, get-pool-data after the buffer test.
ProbeCalls(key, failExists, failId, failData) ==
  LET poolExistsJSON == StripOk(PoolExistsResp(key))
      exists == IF poolExistsJSON.k = "bool" THEN poolExistsJSON.value ELSE FALSE
      idCall == IF failExists \/ ~exists THEN "none" ELSE IF failId THEN "throws" ELSE "ok"
      poolIdCV == StripSome(StripOk(GetPoolIdResp(key)))
      dataCall == IF idCall # "ok" \/ ~IsBufferJSON(poolIdCV) THEN "none"
                  ELSE IF failData THEN "throws" ELSE "ok"
  IN  [key |-> key, existsCall |-> IF failExists THEN "throws" ELSE "ok",
       idCall |-> idCall, dataCall |-> dataCall]

\* ------------------------------------------------------------------------
\* Merge, dedup
\* ------------------------------------------------------------------------
Max(S) == CHOOSE x \in S : \A y \in S : y <= x

\* directByPair.get(key): the last direct pool set under the key, <<>> if none.
DirectByPair(direct, key) ==
  LET at == {i \in 1..Len(direct) : PairKey(direct[i]) = key}
  IN  IF at = {} THEN <<>> ELSE <<direct[Max(at)]>>

\* Mutant of looksFallback: the zero-balance test is left out.
looksFallback_IdOnly(p) == ~isHexId(p.id)

looksFallback(p) == ~isHexId(p.id) \/ (p.balance0 = 0 /\ p.balance1 = 0)

\* The merge loop: pools[i] = dp when dp exists and pools[i] looks fallback.
MergeWithDirect(ps, direct) ==
  [i \in 1..Len(ps) |->
     LET dp == DirectByPair(direct, PairKey(ps[i]))
     IN  IF dp # <<>> /\ looksFallback(ps[i]) THEN dp[1] ELSE ps[i]]

\* Mutant of DedupStep: the first record of a key always stays.
DedupStep_KeepFirst(byPair, p) ==
  IF \E i \in 1..Len(byPair) : PairKey(byPair[i]) = PairKey(p) THEN byPair ELSE Append(byPair, p)

\* One iteration of the dedup loop on byPair, kept as its values in insertion
\* order: set a new key, or replace a non-hex entry by a hex one.
DedupStep(byPair, p) ==
  LET at == {i \in 1..Len(byPair) : PairKey(byPair[i]) = PairKey(p)}
  IN  IF at = {} THEN Append(byPair, p)
      ELSE LET i == CHOOSE x \in at : TRUE
           IN  IF isHexId(p.id) /\ ~isHexId(byPair[i].id)
               THEN [byPair EXCEPT ![i] = p]
               ELSE byPair

RECURSIVE DedupFrom(_, _)
DedupFrom(byPair, ps) ==
  IF ps = <<>> THEN byPair ELSE DedupFrom(DedupStep(byPair, Head(ps)), Tail(ps))

\* Array.from(byPair.values()) after the dedup loop over pools.
Dedup(ps) == DedupFrom(<<>>, ps)

\* ------------------------------------------------------------------------
\* getAllPools, step by step
\* ------------------------------------------------------------------------
\* No helper was called yet.
NoCall == [fn |-> "none"]

\* The tokens of the pool the operations of a session work on.
OpTokens == {K1[1], K1[2]}

\* The accounts that call the mock token; the deployer is its contract-owner.
Principals == {"deployer", "wallet_1", "wallet_2"}
contract_owner == "deployer"
NoTx == [fn |-> "none"]

\* userData === null, and a UserSession that holds nothing.
Null == "null"
SignedOut == [state |-> "none", data |-> Null]

\* The Swap form as its useState initialisers leave it, for a pools prop that
\* starts with the pool of K1; mounted: its first effects have run.
Unmounted ==
  [mounted |-> FALSE, fromToken |-> K1[1], toToken |-> K1[2], fromAmount |-> 0,
   estimatedToAmount |-> 0, disabledReason |-> "none", selectedPoolFee |-> NaN]

Ledgers == {l \in [LedgerKeys -> {"absent", "live", "empty", "skewed"}] :
              \A k \in LedgerKeys : l[k] \in LedgerKinds(k)}

Init ==
  /\ log \in Logs
  /\ ledger \in Ledgers
  /\ pc = "fetch"
  /\ offset = 0
  /\ done = FALSE
  /\ queue = <<>>
  /\ pools = <<>>
  /\ directPools = <<>>
  /\ probeIdx = 0
  /\ probe = <<>>
  /\ deduped = <<>>
  /\ repairIdx = 0
  /\ result = <<>>
  /\ requests = <<>>
  /\ fetchFailed = FALSE
  /\ skipped = 0
  /\ candidates = <<>>
  /\ sweepRuns = 0
  /\ unrepaired = <<>>
  /\ attempts = <<>>
  /\ resolves = <<>>
  /\ call = NoCall
  /\ decimalsReads = [t \in OpTokens |-> 0]
  /\ opsDone = 0
  /\ ftBalances = [who \in Principals |-> 0]
  /\ ftSupply = 0
  /\ tx = NoTx
  /\ form = Unmounted
  /\ runs = <<>>
  /\ lostRuns = 0
  /\ changes = 0
  /\ userSession = SignedOut
  /\ userData = Null
  /\ page = "loading"
  /\ pendingCalls = <<>>
  /\ handled = <<>>
  /\ handlerCalls = 0

\* The head of the while loop: one page request. It fails (a non-OK status,
\* a thrown error, a body without results: break) or yields the page.
FetchOutcomes == {"ok", "status", "throws", "noResults"}

\* Mutant of PageFetched: a page of exactly 50 entries ends the scan too.
PageFetched_FullPageEnds(outcome) ==
  IF outcome # "ok"
  THEN /\ pc' = "scanned"
       /\ fetchFailed' = TRUE
       /\ UNCHANGED <<done, queue>>
  ELSE LET events == Page(offset)
       IN  /\ done' = (done \/ Len(events) <= PageSize)
           /\ queue' = FilterEvents(events)
           /\ pc' = "events"
           /\ UNCHANGED fetchFailed

\* Mutant of PageFetched: a failed request is retried (continue, not break).
PageFetched_Retry(outcome) ==
  IF outcome # "ok"
  THEN /\ pc' = "fetch"
       /\ fetchFailed' = TRUE
       /\ UNCHANGED <<done, queue>>
  ELSE LET events == Page(offset)
       IN  /\ done' = (done \/ Len(events) < PageSize)
           /\ queue' = FilterEvents(events)
           /\ pc' = "events"
           /\ UNCHANGED fetchFailed

PageFetched(outcome) ==
  IF outcome # "ok"
  THEN /\ pc' = "scanned"
       /\ fetchFailed' = TRUE
       /\ UNCHANGED <<done, queue>>
  ELSE LET events == Page(offset)
       IN  /\ done' = (done \/ Len(events) < PageSize)
           /\ queue' = FilterEvents(events)
           /\ pc' = "events"
           /\ UNCHANGED fetchFailed

FetchPage ==
  /\ pc = "fetch"
  /\ \E outcome \in FetchOutcomes : PageFetched(outcome)
  /\ requests' = Append(requests, offset)
  /\ UNCHANGED <<envVars, helperVars, offset, skipped, pools, result, candidates, sweepVars, repairVars>>

\* Mutant of HandleEvent: without the inner try, a throwing entry reaches the
\* catch of the page and ends the scan.
HandleEvent_NoInnerTry ==
  /\ pc = "events"
  /\ queue # <<>>
  /\ \E failId, failData, failRId, failRData \in BOOLEAN :
       LET built == ProcessEvent(Head(queue), failId, failData, failRId, failRData)
       IN  /\ pools' = pools \o built
           /\ skipped' = IF built = <<>> THEN skipped + 1 ELSE skipped
  /\ queue' = Tail(queue)
  /\ pc' = IF Head(queue).decodes THEN pc ELSE "scanned"
  /\ UNCHANGED <<envVars, helperVars, offset, done, requests, fetchFailed, result, candidates,
                 sweepVars, repairVars>>

\* One iteration of the loop over filteredEvents.
HandleEvent ==
  /\ pc = "events"
  /\ queue # <<>>
  /\ \E failId, failData, failRId, failRData \in BOOLEAN :
       LET built == ProcessEvent(Head(queue), failId, failData, failRId, failRData)
       IN  /\ pools' = pools \o built
           /\ skipped' = IF built = <<>> THEN skipped + 1 ELSE skipped
  /\ queue' = Tail(queue)
  /\ UNCHANGED <<envVars, helperVars, pc, offset, done, requests, fetchFailed, result, candidates,
                 sweepVars, repairVars>>

\* The end of the page: offset += 50, and the loop test.
EndPage ==
  /\ pc = "events"
  /\ queue = <<>>
  /\ offset' = offset + PageSize
  /\ pc' = IF done THEN "scanned" ELSE "fetch"
  /\ UNCHANGED <<envVars, helperVars, done, queue, requests, fetchFailed, skipped, pools, result,
                 candidates, sweepVars, repairVars>>

\* After the scan: getAllPoolsDirect is called, on either path.
StartSweep ==
  /\ pc = "scanned"
  /\ pc' = "sweep"
  /\ directPools' = <<>>
  /\ probeIdx' = 1
  /\ sweepRuns' = sweepRuns + 1
  /\ probe' = <<>>
  /\ UNCHANGED <<envVars, helperVars, pools, result, candidates, scanVars, repairVars>>

\* Mutant of SweepProbe: without the try of the probe, a throwing call ends
\* getAllPoolsDirect, and with it getAllPools, by an exception.
SweepProbe_NoTry ==
  /\ pc = "sweep"
  /\ probeIdx <= Len(Probes)
  /\ \E failExists, failId, failData \in BOOLEAN :
       /\ directPools' = directPools \o ProbePool(Probes[probeIdx], failExists, failId, failData)
       /\ probe' = <<ProbeCalls(Probes[probeIdx], failExists, failId, failData)>>
       /\ pc' = IF failExists THEN "raised" ELSE pc
  /\ probeIdx' = probeIdx + 1
  /\ UNCHANGED <<envVars, helperVars, pools, result, candidates, scanVars, sweepRuns, repairVars>>

\* One probe of getAllPoolsDirect.
SweepProbe ==
  /\ pc = "sweep"
  /\ probeIdx <= Len(Probes)
  /\ \E failExists, failId, failData \in BOOLEAN :
       /\ directPools' = directPools \o ProbePool(Probes[probeIdx], failExists, failId, failData)
       /\ probe' = <<ProbeCalls(Probes[probeIdx], failExists, failId, failData)>>
  /\ probeIdx' = probeIdx + 1
  /\ UNCHANGED <<envVars, helperVars, pc, pools, result, candidates, scanVars, sweepRuns, repairVars>>

\* Mutant of SweepReturn: with no candidate, pools is returned (the sweep's
\* list is dropped).
SweepReturn_ReturnsPools ==
  /\ pc = "sweep"
  /\ probeIdx > Len(Probes)
  /\ IF Len(pools) = 0
     THEN /\ result' = pools
          /\ pc' = "done"
          /\ UNCHANGED <<pools, candidates>>
     ELSE /\ candidates' = pools
          /\ pools' = MergeWithDirect(pools, directPools)
          /\ pc' = "dedup"
          /\ UNCHANGED result
  /\ probe' = <<>>
  /\ UNCHANGED <<envVars, helperVars, scanVars, directPools, probeIdx, sweepRuns, repairVars>>

\* getAllPoolsDirect returns: with no candidate its list is the result of
\* getAllPools; otherwise the merge loop replaces fallback-looking candidates.
SweepReturn ==
  /\ pc = "sweep"
  /\ probeIdx > Len(Probes)
  /\ IF Len(pools) = 0
     THEN /\ result' = directPools
          /\ pc' = "done"
          /\ UNCHANGED <<pools, candidates>>
     ELSE /\ candidates' = pools
          /\ pools' = MergeWithDirect(pools, directPools)
          /\ pc' = "dedup"
          /\ UNCHANGED result
  /\ probe' = <<>>
  /\ UNCHANGED <<envVars, helperVars, scanVars, directPools, probeIdx, sweepRuns, repairVars>>

\* The dedup loop and Array.from(byPair.values()).
DedupPools ==
  /\ pc = "dedup"
  /\ deduped' = Dedup(pools)
  /\ unrepaired' = Dedup(pools)
  /\ attempts' = [i \in 1..Len(Dedup(pools)) |-> 0]
  /\ resolves' = [i \in 1..Len(Dedup(pools)) |-> <<>>]
  /\ repairIdx' = 1
  /\ pc' = "repair"
  /\ UNCHANGED <<envVars, helperVars, pools, result, candidates, scanVars, sweepVars>>

\* Mutant of RepairOne: the isHexId test is left out, every record is resolved.
RepairOne_ResolveAll(i, failId, failData) ==
  LET p == deduped[i]
      resolved == resolvePoolByPair(p.token0, p.token1, p.fee, failId, failData)
  IN  /\ deduped' = IF resolved # <<>> THEN [deduped EXCEPT ![i] = resolved[1]] ELSE deduped
      /\ attempts' = [attempts EXCEPT ![i] = @ + 1]
      /\ resolves' = [resolves EXCEPT ![i] = resolved]

\* One iteration of the final fix-up pass.
RepairOne(i, failId, failData) ==
  LET p == deduped[i]
      resolved == resolvePoolByPair(p.token0, p.token1, p.fee, failId, failData)
  IN  IF ~isHexId(p.id)
      THEN /\ deduped' = IF resolved # <<>> THEN [deduped EXCEPT ![i] = resolved[1]] ELSE deduped
           /\ attempts' = [attempts EXCEPT ![i] = @ + 1]
           /\ resolves' = [resolves EXCEPT ![i] = resolved]
      ELSE UNCHANGED <<deduped, attempts, resolves>>

RepairStep ==
  /\ pc = "repair"
  /\ repairIdx <= Len(deduped)
  /\ \E failId, failData \in BOOLEAN : RepairOne(repairIdx, failId, failData)
  /\ repairIdx' = repairIdx + 1
  /\ UNCHANGED <<envVars, helperVars, pc, pools, result, candidates, scanVars, sweepVars, unrepaired>>

\* return deduped
ReturnDeduped ==
  /\ pc = "repair"
  /\ repairIdx > Len(deduped)
  /\ result' = deduped
  /\ pc' = "done"
  /\ UNCHANGED <<envVars, helperVars, pools, candidates, scanVars, sweepVars, repairVars>>

Next ==
  \/ FetchPage
  \/ HandleEvent
  \/ EndPage
  \/ StartSweep
  \/ SweepProbe
  \/ SweepReturn
  \/ DedupPools
  \/ RepairStep
  \/ ReturnDeduped

Spec == Init /\ [][Next]_vars

\* ------------------------------------------------------------------------
\* The read helpers and the pure functions, called one at a time
\* ------------------------------------------------------------------------
\* A behaviour of ReadSpec is one call of one helper, on one ledger.
\* The ledgers the helpers are called against: the pool of the mock-token /
\* mock-token-2 pair answers in any of the ways of ReadKinds.
ReadLedgers ==
  {[k \in LedgerKeys |-> IF k = K1 THEN kind ELSE IF k = K2 THEN "live" ELSE "absent"] :
     kind \in ReadKinds}

\* Nothing has run yet.
Idle ==
  /\ pc = "fetch"
  /\ offset = 0
  /\ done = FALSE
  /\ queue = <<>>
  /\ pools = <<>>
  /\ directPools = <<>>
  /\ probeIdx = 0
  /\ probe = <<>>
  /\ deduped = <<>>
  /\ repairIdx = 0
  /\ result = <<>>
  /\ requests = <<>>
  /\ fetchFailed = FALSE
  /\ skipped = 0
  /\ candidates = <<>>
  /\ sweepRuns = 0
  /\ unrepaired = <<>>
  /\ attempts = <<>>
  /\ resolves = <<>>
  /\ call = NoCall
  /\ decimalsReads = [t \in OpTokens |-> 0]
  /\ opsDone = 0
  /\ ftBalances = [who \in Principals |-> 0]
  /\ ftSupply = 0
  /\ tx = NoTx
  /\ form = Unmounted
  /\ runs = <<>>
  /\ lostRuns = 0
  /\ changes = 0
  /\ userSession = SignedOut
  /\ userData = Null
  /\ page = "loading"
  /\ pendingCalls = <<>>
  /\ handled = <<>>
  /\ handlerCalls = 0

ReadInit == log = <<>> /\ ledger \in ReadLedgers /\ Idle

discoveryVars == <<pc, pools, result, candidates, scanVars, sweepVars, repairVars>>

\* The read-only calls resolvePoolByPair issues, each with how it ended
\* ("none": not issued): get-pool-id, and get-pool-data after the buffer test.
ResolveCalls(token0In, token1In, fee, failId, failData) ==
  LET c == Canon(token0In, token1In)
      poolIdCV == StripSome(StripOk(GetPoolIdResp(<<c[1], c[2], fee>>)))
  IN  [idCall |-> IF failId THEN "throws" ELSE "ok",
       dataCall |-> IF failId \/ ~IsBufferJSON(poolIdCV) THEN "none"
                    ELSE IF failData THEN "throws" ELSE "ok"]

\* The tokens a pair handed to a helper is made of.
PairTokens == {"ext-token", "mock-token", "mock-token-2"}

\* A call of resolvePoolByPair.
ResolveCall ==
  /\ call = NoCall
  /\ \E token0In, token1In \in PairTokens, failId, failData \in BOOLEAN :
       /\ token0In # token1In
       /\ call' = [fn |-> "resolvePoolByPair", token0In |-> token0In, token1In |-> token1In,
                fee |-> FEES[1],
                calls |-> ResolveCalls(token0In, token1In, FEES[1], failId, failData),
                out |-> resolvePoolByPair(token0In, token1In, FEES[1], failId, failData)]
  /\ UNCHANGED <<envVars, discoveryVars, opVars, appVars>>

\* What a call hands back: a value, or an exception.
Returned(v) == [ok |-> TRUE, value |-> v]
Thrown == [ok |-> FALSE, value |-> 0]

\* A JSON value that is a plain string, not an object.
JRaw(chars) == [type |-> "undefined", k |-> "raw", value |-> chars]

DigitChars == <<"0", "1", "2", "3", "4", "5", "6", "7", "8", "9">>
IsDigit(c) == \E d \in 1..10 : DigitChars[d] = c
DigitVal(c) == (CHOOSE d \in 1..10 : DigitChars[d] = c) - 1

RECURSIVE DigitsToNat(_)
\* Number / BigInt of a string of decimal digits.
DigitsToNat(cs) ==
  IF cs = <<>> THEN 0 ELSE DigitsToNat(SubSeq(cs, 1, Len(cs) - 1)) * 10 + DigitVal(cs[Len(cs)])

RECURSIVE TrimSpaces(_)
TrimSpaces(cs) ==
  IF cs # <<>> /\ Head(cs) = " " THEN TrimSpaces(Tail(cs))
  ELSE IF cs # <<>> /\ cs[Len(cs)] = " " THEN TrimSpaces(SubSeq(cs, 1, Len(cs) - 1))
  ELSE cs

\* decStr.match(/^\s*u?(\d+)\s*$/): <<Number(m[1])>>, or <<>> without match.
MatchDecimals(cs) ==
  LET t == TrimSpaces(cs)
      body == IF t # <<>> /\ Head(t) = "u" THEN Tail(t) ELSE t
  IN  IF body # <<>> /\ \A i \in 1..Len(body) : IsDigit(body[i])
      THEN <<DigitsToNat(body)>> ELSE <<>>

\* getTokenDecimals on the answer json of get-decimals; fails: the read-only
\* call throws.
getTokenDecimals(json, fails) ==
  IF fails THEN Thrown
  ELSE LET okVal == StripOk(json)
           \* val = getJsonInnerValue(okVal); decStr = val.value for a uint object
           decStr == IF okVal.k = "obj" /\ okVal.value.type = "uint" THEN okVal.value
                     ELSE IF okVal.k \in {"raw", "num"} THEN okVal
                     ELSE Undefined
       \* a uint holds a string of digits, which the pattern always matches; the
       \* other strings of the model ("str") are names, which it never matches
       IN  CASE decStr.k = "num" -> Returned(decStr.value)
             [] decStr.k = "raw" ->
                  IF MatchDecimals(decStr.value) # <<>>
                  THEN Returned(MatchDecimals(decStr.value)[1]) ELSE Thrown
             [] OTHER -> Thrown

\* getTokenBalance on the answer json of get-balance.
getTokenBalance(json, fails) ==
  IF fails THEN Thrown
  ELSE LET okVal == StripOk(json)
       IN  IF okVal.type = "uint" THEN Returned(NumberInnerOrZero(okVal))
           ELSE IF okVal.k = "raw"
                THEN Returned(IF MatchDecimals(okVal.value) # <<>>
                                   /\ Head(TrimSpaces(okVal.value)) # "u"
                              THEN MatchDecimals(okVal.value)[1] ELSE NaN)
           ELSE Returned(NumberInnerOrZero(okVal))

\* The answers a token contract and a ledger client can hand back for
\* get-decimals and get-balance.
TokenAnswers ==
  <<JOk("response-ok", JUint(6)), JOk("responseOk", JUint(6)), JUint(6),
    JErr(JUint(6)), JErr(JUint(1)), JOk("response-ok", JNone),
    JRaw(<<"u", "6">>), JRaw(<<" ", "1", "8">>), JRaw(<<"x">>)>>

\* A call of getTokenDecimals.
DecimalsCall ==
  /\ call = NoCall
  /\ \E a \in 1..Len(TokenAnswers), fails \in BOOLEAN :
       call' = [fn |-> "getTokenDecimals", json |-> TokenAnswers[a], fails |-> fails,
                out |-> getTokenDecimals(TokenAnswers[a], fails)]
  /\ UNCHANGED <<envVars, discoveryVars, opVars, appVars>>

\* A call of getTokenBalance.
BalanceCall ==
  /\ call = NoCall
  /\ \E a \in 1..Len(TokenAnswers), fails \in BOOLEAN :
       call' = [fn |-> "getTokenBalance", json |-> TokenAnswers[a], fails |-> fails,
                out |-> getTokenBalance(TokenAnswers[a], fails)]
  /\ UNCHANGED <<envVars, discoveryVars, opVars, appVars>>

\* getUserLiquidity on the answer json of get-position-liquidity.
getUserLiquidity(json, fails) ==
  IF fails THEN Thrown
  ELSE IF json.type # "response-ok" THEN Returned(0)
  ELSE IF json.value.type # "uint" THEN Returned(0)
  ELSE Returned(json.value.value)

\* The answers of get-position-liquidity.
PositionAnswers ==
  <<JOk("response-ok", JUint(4)), JOk("responseOk", JUint(4)),
    JOk("response-ok", JNone), JErr(JUint(4))>>

\* A call of getUserLiquidity.
LiquidityCall ==
  /\ call = NoCall
  /\ \E a \in 1..Len(PositionAnswers), fails \in BOOLEAN :
       call' = [fn |-> "getUserLiquidity", json |-> PositionAnswers[a], fails |-> fails,
                out |-> getUserLiquidity(PositionAnswers[a], fails)]
  /\ UNCHANGED <<envVars, discoveryVars, opVars, appVars>>

\* A JavaScript number used as an amount: NaN, an infinity, or a finite value
\* given by its sign, its integer part and the digits of its fraction (no
\* trailing zero).
Amount(kind, neg, int, frac) == [kind |-> kind, neg |-> neg, int |-> int, frac |-> frac]

RECURSIVE NatChars(_)
\* The decimal digits of a natural number.
NatChars(n) ==
  IF n < 10 THEN <<DigitChars[n + 1]>> ELSE NatChars(n \div 10) \o <<DigitChars[(n % 10) + 1]>>

RECURSIVE LeadingZeros(_)
LeadingZeros(cs) == IF cs # <<>> /\ Head(cs) = "0" THEN 1 + LeadingZeros(Tail(cs)) ELSE 0

\* amount.toString() of a finite, non-negative amount: plain digits, and the
\* exponent notation of Number.prototype.toString below 1e-6.
AmountToString(a) ==
  IF a.int = 0 /\ a.frac # <<>> /\ LeadingZeros(a.frac) >= 6
  THEN LET z == LeadingZeros(a.frac)
           sig == SubSeq(a.frac, z + 1, Len(a.frac))
       IN  <<Head(sig)>> \o (IF Len(sig) > 1 THEN <<".">> \o Tail(sig) ELSE <<>>)
             \o <<"e", "-">> \o NatChars(z + 1)
  ELSE NatChars(a.int) \o (IF a.frac = <<>> THEN <<>> ELSE <<".">> \o a.frac)

\* str.split("."): the parts between the dots.
RECURSIVE SplitDot(_)
SplitDot(cs) ==
  LET dots == {i \in 1..Len(cs) : cs[i] = "."}
  IN  IF dots = {} THEN <<cs>>
      ELSE LET d == CHOOSE i \in dots : \A j \in dots : i <= j
           IN  <<SubSeq(cs, 1, d - 1)>> \o SplitDot(SubSeq(cs, d + 1, Len(cs)))

\* s.padEnd(n, "0").slice(0, n)
PadSlice(cs, n) == [i \in 1..n |-> IF i <= Len(cs) THEN cs[i] ELSE "0"]

\* BigInt(s || "0") of a string: its value, or <<>> for the SyntaxError of a
\* string that is no integer literal.
BigIntOf(cs) ==
  IF cs = <<>> THEN <<0>>
  ELSE IF \A i \in 1..Len(cs) : IsDigit(cs[i]) THEN <<DigitsToNat(cs)>>
  ELSE <<>>

RECURSIVE Pow10(_)
Pow10(n) == IF n = 0 THEN 1 ELSE 10 * Pow10(n - 1)

\* toBaseUnits(amount, decimals).
toBaseUnits(amount, decimals) ==
  IF amount.kind # "finite" \/ amount.neg THEN Thrown
  ELSE IF decimals < 0 THEN Thrown
  ELSE LET parts == SplitDot(AmountToString(amount))
           intPart == parts[1]
           fracRaw == IF Len(parts) > 1 THEN parts[2] ELSE <<>>
           fracPart == PadSlice(fracRaw, decimals)
           intUnits == BigIntOf(intPart)
           fracUnits == BigIntOf(fracPart)
       IN  IF intUnits = <<>> \/ fracUnits = <<>> THEN Thrown
           ELSE Returned(intUnits[1] * Pow10(decimals) + fracUnits[1])

\* The fractions of the amounts: up to MaxFracLen digits, the last one not 0.
RECURSIVE FracsOfLen(_)
FracsOfLen(n) ==
  IF n = 0 THEN {<<>>}
  ELSE {<<d>> \o f : d \in {"0", "5"}, f \in FracsOfLen(n - 1)}
Fracs ==
  {<<>>} \cup UNION {{f \in FracsOfLen(n) : f[n] # "0"} : n \in 1..MaxFracLen}

Amounts ==
  {Amount("finite", neg, int, frac) : neg \in BOOLEAN, int \in {0, 1, 12}, frac \in Fracs}
    \cup {Amount("NaN", FALSE, 0, <<>>), Amount("Infinity", FALSE, 0, <<>>)}

\* A call of toBaseUnits, on an amount whose base units stay below 2^31.
BaseUnitsCall ==
  /\ call = NoCall
  /\ \E amount \in Amounts, decimals \in (-1)..MaxDecimals :
       /\ ~(amount.neg /\ amount.int = 0 /\ amount.frac = <<>>)
       /\ decimals >= 9 => amount.int <= 1
       /\ call' = [fn |-> "toBaseUnits", amount |-> amount, decimals |-> decimals,
                   out |-> toBaseUnits(amount, decimals)]
  /\ UNCHANGED <<envVars, discoveryVars, opVars, appVars>>

\* n || 0 for a number n.
OrZero(n) == IF n = NaN THEN 0 ELSE n

\* a * b as <<high, low>>, the product being high * 10^6 + low: the products
\* of reserves are exact in JavaScript and are kept exact here.
Product(a, b) ==
  LET ah == a \div 1000
      al == a % 1000
      bh == b \div 1000
      bl == b % 1000
      mid == ah * bl + al * bh
      low == al * bl + (mid % 1000) * 1000
  IN  <<ah * bh + (mid \div 1000) + (low \div 1000000), low % 1000000>>

\* The reserve product the sort compares: (balance-0 || 0) * (balance-1 || 0).
SortProduct(p) == Product(OrZero(p.balance0), OrZero(p.balance1))

\* A comparator whose tie-break prefers the higher fee.
BeforePool_HigherFee(a, b) ==
  LET m == SortProduct(a)
      n == SortProduct(b)
  IN  \/ m[1] > n[1] \/ (m[1] = n[1] /\ m[2] > n[2])
      \/ m = n /\ a.fee > b.fee

\* The comparator of the sort is negative: a goes before b when its product
\* is larger, or the products are equal and its fee is lower.
BeforePool(a, b) ==
  LET m == SortProduct(a)
      n == SortProduct(b)
  IN  \/ m[1] > n[1] \/ (m[1] = n[1] /\ m[2] > n[2])
      \/ m = n /\ a.fee < b.fee

RECURSIVE InsertPool(_, _)
\* p put into a sorted array, behind the entries it does not go before.
InsertPool(sorted, p) ==
  IF sorted = <<>> THEN <<p>>
  ELSE IF BeforePool(p, Head(sorted)) THEN <<p>> \o sorted
  ELSE <<Head(sorted)>> \o InsertPool(Tail(sorted), p)

RECURSIVE SortPools(_)
\* Array.prototype.sort with the comparator: a stable sort.
SortPools(list) ==
  IF list = <<>> THEN <<>>
  ELSE InsertPool(SortPools(SubSeq(list, 1, Len(list) - 1)), list[Len(list)])

\* A run of selectBestPool on its arrays: filter builds pairPools and
\* withReserves as new arrays, candidates is one of the two, and sort
\* reorders the array candidates refers to in place. best is <<pool>>, or <<>>
\* for null; arrays are the three arrays after the run.
SelectRun(ft, tt, poolsList) ==
  LET pairPools == SelectSeq(poolsList, LAMBDA p :
                     \/ p.token0 = ft /\ p.token1 = tt
                     \/ p.token0 = tt /\ p.token1 = ft)
      withReserves == SelectSeq(pairPools, LAMBDA p : p.balance0 > 0 /\ p.balance1 > 0)
      \* candidates = withReserves.length > 0 ? withReserves : pairPools
      chosen == IF Len(withReserves) > 0 THEN "withReserves" ELSE "pairPools"
      arrays == [poolsList |-> poolsList, pairPools |-> pairPools,
                 withReserves |-> withReserves]
      sorted == [arrays EXCEPT ![chosen] = SortPools(@)]
  IN  IF Len(pairPools) = 0 THEN [best |-> <<>>, arrays |-> arrays]
      ELSE [best |-> <<sorted[chosen][1]>>, arrays |-> sorted]

\* selectBestPool: the pools of the pair, those with reserves if there are
\* any, sorted by reserve product (largest first) and fee (lowest first);
\* <<pool>>, or <<>> for null.
selectBestPool(ft, tt, poolsList) == SelectRun(ft, tt, poolsList).best

RECURSIVE MulDivFrom_Remainder(_, _, _, _, _)
\* Mutant of MulDivFrom: the remainder is handed back for the quotient.
MulDivFrom_Remainder(digits, b, c, q, r) ==
  IF digits = <<>> THEN r
  ELSE LET n == 10 * r + DigitVal(Head(digits)) * b
       IN  MulDivFrom_Remainder(Tail(digits), b, c, 10 * q + (n \div c), n % c)

RECURSIVE MulDivFrom(_, _, _, _, _)
\* floor(a * b / c) for the digits of a, most significant first, without
\* forming the product: q and r are the quotient and remainder of the digits
\* read so far.
MulDivFrom(digits, b, c, q, r) ==
  IF digits = <<>> THEN q
  ELSE LET n == 10 * r + DigitVal(Head(digits)) * b
       IN  MulDivFrom(Tail(digits), b, c, 10 * q + (n \div c), n % c)

\* (a * b) / c in BigInt arithmetic, which is exact.
MulDivFloor(a, b, c) == MulDivFrom(NatChars(a), b, c, 0, 0)

\* What estimateSwapOutput leaves on the form: the estimate and the reason.
Quote(estimate, reason) == [estimate |-> estimate, reason |-> reason]

\* The arithmetic with the fee added to the output instead of taken off it.
SwapOutput_FeeAdded(x, y, fee, zeroForOne, deltaBaseUnits) ==
  LET term == IF zeroForOne THEN MulDivFloor(x, y, x + deltaBaseUnits)
              ELSE MulDivFloor(x, y, y + deltaBaseUnits)
      output == IF zeroForOne THEN y - term ELSE x - term
      outputAfterFees == output + MulDivFloor(output, fee, 10000)
  IN  IF output <= 0 THEN Quote(0, "Output is zero; try a larger amount")
      ELSE IF outputAfterFees > 0 THEN Quote(outputAfterFees, "none")
      ELSE Quote(0, "Output becomes zero after fees")

\* The constant-product arithmetic of estimateSwapOutput on base units, for
\* positive reserves x, y and a positive input.
SwapOutput(x, y, fee, zeroForOne, deltaBaseUnits) ==
  LET term == IF zeroForOne THEN MulDivFloor(x, y, x + deltaBaseUnits)
              ELSE MulDivFloor(x, y, y + deltaBaseUnits)
      output == IF zeroForOne THEN y - term ELSE x - term
      outputAfterFees == output - MulDivFloor(output, fee, 10000)
  IN  IF output <= 0 THEN Quote(0, "Output is zero; try a larger amount")
      ELSE IF outputAfterFees > 0 THEN Quote(outputAfterFees, "none")
      ELSE Quote(0, "Output becomes zero after fees")

\* estimateSwapOutput for the form's fromToken, toToken, fromAmount and
\* pools, and the answer json of get-decimals: what the run leaves on the form
\* (Returned) or the exception it ends with (Thrown), and whether it issued
\* the get-decimals read.
estimateSwapOutput(fromToken, toToken, fromAmount, poolsList, json, fails) ==
  LET best == selectBestPool(fromToken, toToken, poolsList)
      pool == best[1]
      zeroForOne == fromToken = pool.token0
      fromDecimals == getTokenDecimals(json, fails)
      deltaBaseUnits == toBaseUnits(fromAmount, fromDecimals.value)
      noRead(q) == [out |-> Returned(q), read |-> FALSE]
  IN  IF best = <<>> THEN noRead(Quote(0, "No pool exists for the selected pair"))
      ELSE IF fromAmount.kind # "finite" \/ fromAmount.neg
              \/ (fromAmount.int = 0 /\ fromAmount.frac = <<>>)
      THEN noRead(Quote(0, "Enter a positive amount"))
      ELSE IF pool.balance0 = NaN \/ pool.balance1 = NaN
      THEN [out |-> Thrown, read |-> FALSE]
      ELSE IF pool.balance0 <= 0 \/ pool.balance1 <= 0
      THEN noRead(Quote(0, "Pool has zero reserves"))
      ELSE IF ~fromDecimals.ok THEN [out |-> Thrown, read |-> TRUE]
      ELSE IF ~deltaBaseUnits.ok THEN [out |-> Thrown, read |-> TRUE]
      ELSE IF deltaBaseUnits.value <= 0
      THEN [out |-> Returned(Quote(0, "Amount too small after decimals conversion")),
            read |-> TRUE]
      ELSE [out |-> Returned(SwapOutput(pool.balance0, pool.balance1, pool.fee, zeroForOne,
                                        deltaBaseUnits.value)),
            read |-> TRUE]

\* The reserves, fees and amounts the estimate is asked for.
QuoteReserves == {0, 1, 2, 7, 1000000, NaN}
QuoteFees == {0, 500, 10000}
QuoteAmounts ==
  {Amount("finite", FALSE, int, frac) :
     int \in {0, 1, 3, 12},
     frac \in {<<>>, <<"5">>, <<"0", "1">>, <<"0", "0", "0", "0", "0", "0", "1">>}}
    \cup {Amount("finite", TRUE, 1, <<>>), Amount("NaN", FALSE, 0, <<>>)}
QuoteAnswers == <<JOk("response-ok", JUint(0)), JOk("response-ok", JUint(1)),
                  JOk("response-ok", JUint(6)), JOk("response-ok", JNone)>>

\* A run of estimateSwapOutput on a form with one pool.
EstimateCall ==
  /\ call = NoCall
  /\ \E b0, b1 \in QuoteReserves, fee \in QuoteFees, zeroForOne \in BOOLEAN,
        fromAmount \in QuoteAmounts, a \in 1..Len(QuoteAnswers), fails \in BOOLEAN :
       LET pool == Pool(PoolIdOf(K1), K1[1], K1[2], fee, 1, b0, b1, "resolve")
           fromToken == IF zeroForOne THEN K1[1] ELSE K1[2]
           toToken == IF zeroForOne THEN K1[2] ELSE K1[1]
       IN  call' = [fn |-> "estimateSwapOutput", pool |-> pool, zeroForOne |-> zeroForOne,
                    fromAmount |-> fromAmount, json |-> QuoteAnswers[a], fails |-> fails,
                    run |-> estimateSwapOutput(fromToken, toToken, fromAmount, <<pool>>,
                                               QuoteAnswers[a], fails)]
  /\ UNCHANGED <<envVars, discoveryVars, opVars, appVars>>

\* One probe of getAllPoolsDirect, on its own.
ProbeCall ==
  /\ call = NoCall
  /\ \E key \in {K1, K1r}, failExists, failId, failData \in BOOLEAN :
       call' = [fn |-> "probe", key |-> key,
                calls |-> ProbeCalls(key, failExists, failId, failData),
                out |-> ProbePool(key, failExists, failId, failData)]
  /\ UNCHANGED <<envVars, discoveryVars, opVars, appVars>>

\* A string that principalCV rejects.
NotAPrincipal == "not-a-principal"

\* principalCV(t) returns; it throws on a string that is no principal.
isPrincipal(t) == t # NotAPrincipal

\* The pair the event scanner keys a create-pool event by: the swap by
\* principal hex inside a try, the event order when principal parsing throws.
ScanCanon(token0, token1) ==
  IF isPrincipal(token0) /\ isPrincipal(token1) THEN Canon(token0, token1)
  ELSE <<token0, token1>>

\* The pair resolvePoolByPair reads get-pool-id with; a throw of principalCV
\* is inside the function's try and ends the call (with null).
ResolveCanon(token0In, token1In) ==
  IF isPrincipal(token0In) /\ isPrincipal(token1In) THEN Returned(Canon(token0In, token1In))
  ELSE Thrown

\* createPool: the function arguments of the create-pool transaction; a throw
\* of principalCV leaves the function.
createPool(token0, token1, fee) ==
  IF isPrincipal(token0) /\ isPrincipal(token1)
  THEN LET c == Canon(token0, token1)
       IN  Returned([functionName |-> "create-pool", functionArgs |-> <<c[1], c[2], fee>>])
  ELSE Thrown

\* The strings a pair handed to a canonicalization is made of.
CanonInputs == PairTokens \cup {"mock-token-3", NotAPrincipal}

\* One pair put through the three canonicalizations.
CanonCall ==
  /\ call = NoCall
  /\ \E a, b \in CanonInputs, fee \in {FEES[1], 3000} :
       call' = [fn |-> "canonicalize", a |-> a, b |-> b, fee |-> fee,
                scan |-> ScanCanon(a, b),
                resolve |-> ResolveCanon(a, b),
                create |-> createPool(a, b, fee)]
  /\ UNCHANGED <<envVars, discoveryVars, opVars, appVars>>

\* ------------------------------------------------------------------------
\* The quote, add-liquidity and swap operations of one session
\* ------------------------------------------------------------------------
\* get-decimals of the mock token: (ok u6).
get_decimals == JOk("response-ok", JUint(6))

\* amount === 0.
IsZero(amount) == amount.kind = "finite" /\ amount.int = 0 /\ amount.frac = <<>>

RECURSIVE Pow2(_)
\* 2^n, and 1 for a negative n.
Pow2(n) == IF n <= 0 THEN 1 ELSE 2 * Pow2(n - 1)

RECURSIVE Pow2Mod(_, _)
\* 2^k modulo m.
Pow2Mod(k, m) == IF k <= 0 THEN 1 % m ELSE (2 * Pow2Mod(k - 1, m)) % m

\* a / b < 2^p, for positive integers a and b.
BelowPow2(a, b, p) == a * Pow2(-p) < b * Pow2(p)

\* The binary exponent p of a / b: 2^(p-1) <= a / b < 2^p.
QuotientExponent(a, b) == CHOOSE p \in -10..10 : ~BelowPow2(a, b, p - 1) /\ BelowPow2(a, b, p)

\* What is left of the division balance-0 / balance-1 after the 53 bits of a
\* double: the remainder of balance-0 * 2^(53-p) by balance-1.
RatioRemainder(balance0, balance1) ==
  (balance0 * Pow2Mod(53 - QuotientExponent(balance0, balance1), balance1)) % balance1

\* poolRatio = balance-0 / balance-1 is a double above the true quotient:
\* round to nearest, ties to even, rounded the 53-bit quotient up.
RatioRoundedUp(balance0, balance1) ==
  LET rem == RatioRemainder(balance0, balance1)
      k == 53 - QuotientExponent(balance0, balance1)
      odd == (balance0 * Pow2Mod(k, 2 * balance1)) % (2 * balance1) >= balance1
  IN  2 * rem > balance1 \/ (2 * rem = balance1 /\ odd)

\* Math.floor(Number(amount0Base) / (balance-0 / balance-1)) in double
\* arithmetic, for positive reserves and amounts far below 2^20. Where
\* amount0Base * balance-1 / balance-0 is no whole number the errors of the
\* two divisions are too small to reach the next whole number. Where it is a
\* whole number n and poolRatio was rounded up, the second quotient lies below
\* n by n * (balance1 - rem) / (balance1 * M), M the 53-bit mantissa of
\* poolRatio, and the division returns the double before n when that exceeds
\* half the spacing 2^(e-52) of the doubles below n, 2^e < n <= 2^(e+1).
IdealAmount1(amount0Base, balance0, balance1) ==
  LET n == (amount0Base * balance1) \div balance0
      e == IF n <= 1 THEN -1 ELSE CHOOSE i \in 0..29 : Pow2(i) < n /\ n <= Pow2(i + 1)
      p == QuotientExponent(balance0, balance1)
      rem == RatioRemainder(balance0, balance1)
      \* n * (balance1 - rem) * 2^p > balance0 * 2^e
      below == IF e = -1
               THEN 2 * n * (balance1 - rem) * Pow2(p) > balance0 * Pow2(-p)
               ELSE n * (balance1 - rem) * Pow2(p) > balance0 * Pow2(e) * Pow2(-p)
  IN  IF (amount0Base * balance1) % balance0 # 0 \/ n = 0 THEN n
      ELSE IF ~RatioRoundedUp(balance0, balance1) THEN n
      ELSE IF below THEN n - 1 ELSE n

\* A threshold test that lets a square root of exactly 1000 pass.
TooSmall_Below(amount0Base, amount1Base) ==
  LET product == Product(amount0Base, amount1Base)
  IN  product[1] = 0

\* sqrtProduct <= MINIMUM_LIQUIDITY: Math.floor(Math.sqrt(x * y)) <= 1000,
\* that is x * y < 1001 * 1001; the product as <<high, low>> in base 10^6.
TooSmall(amount0Base, amount1Base) ==
  LET product == Product(amount0Base, amount1Base)
  IN  product[1] = 0 \/ (product[1] = 1 /\ product[2] <= 2000)

\* The error addLiquidity throws: its kind, and the minimum of token-1 its
\* message names (0 where the message names none).
LiquidityError(kind, min) == [kind |-> kind, min |-> min]
NoError == LiquidityError("none", 0)

\* addLiquidity: the transaction options or an exception, the error thrown,
\* and the tokens whose get-decimals was read on the way, in the order of the
\* reads.
addLiquidity(pool, amount0, amount1, fails0, fails1) ==
  LET dec0 == getTokenDecimals(get_decimals, fails0)
      dec1 == getTokenDecimals(get_decimals, fails1)
      amount0Base == toBaseUnits(amount0, dec0.value)
      amount1Base == toBaseUnits(amount1, dec1.value)
      idealAmount1Base == IdealAmount1(amount0Base.value, pool.balance0, pool.balance1)
      tooSmall == TooSmall(amount0Base.value, amount1Base.value)
      both == <<pool.token0, pool.token1>>
      thrown(kind, min, reads) ==
        [out |-> Thrown, error |-> LiquidityError(kind, min), reads |-> reads]
  IN  IF IsZero(amount0) \/ IsZero(amount1) THEN thrown("Cannot add liquidity with 0 amount", 0, <<>>)
      ELSE IF ~dec0.ok THEN thrown("Invalid decimals response", 0, <<pool.token0>>)
      ELSE IF ~dec1.ok THEN thrown("Invalid decimals response", 0, both)
      ELSE IF ~amount0Base.ok \/ ~amount1Base.ok THEN thrown("toBaseUnits", 0, both)
      ELSE IF pool.liquidity > 0 /\ amount1Base.value < idealAmount1Base
      THEN thrown("You need at least", idealAmount1Base, both)
      ELSE IF ~(pool.liquidity > 0) /\ tooSmall
      THEN thrown("Initial deposit too small", 0, both)
      ELSE [out |-> Returned([functionName |-> "add-liquidity",
                              functionArgs |-> <<pool.token0, pool.token1, pool.fee,
                                                 amount0Base.value, amount1Base.value, 0, 0>>]),
            error |-> NoError,
            reads |-> both]

\* swap: the transaction options or an exception, and the tokens whose
\* get-decimals was read on the way.
swap(pool, amount, zeroForOne, fails) ==
  LET fromToken == IF zeroForOne THEN pool.token0 ELSE pool.token1
      dec == getTokenDecimals(get_decimals, fails)
      amountBase == toBaseUnits(amount, dec.value)
  IN  IF amount.kind # "finite" \/ amount.neg \/ IsZero(amount)
      THEN [out |-> Thrown, reads |-> <<>>]
      ELSE IF ~dec.ok \/ ~amountBase.ok THEN [out |-> Thrown, reads |-> <<fromToken>>]
      ELSE [out |-> Returned([functionName |-> "swap",
                              functionArgs |-> <<pool.token0, pool.token1, pool.fee,
                                                 amountBase.value, zeroForOne>>]),
            reads |-> <<fromToken>>]

\* The pools a deposit is checked against: (liquidity, balance-0, balance-1),
\* with no liquidity yet or with liquidity and positive reserves.
DepositPoolStates ==
  {<<0, 0, 0>>, <<2000, 2000, 2000>>, <<2000, 4000, 1000>>, <<20, 9, 7>>, <<20, 7, 9>>,
   <<20, 3, 17>>}
DepositPools ==
  {Pool(PoolIdOf(K1), K1[1], K1[2], K1[3], s[1], s[2], s[3], "resolve") :
     s \in DepositPoolStates}

\* The amounts of a deposit, as fractions of a token of 6 decimals: 0, and
\* 6, 7, 9, 21, 118, 119, 900, 1000, 1001, 1003 and 2000 base units.
DepositAmounts ==
  {Amount("finite", FALSE, 0, frac) :
     frac \in {<<>>, <<"0", "0", "0", "0", "0", "6">>, <<"0", "0", "0", "0", "0", "7">>,
               <<"0", "0", "0", "0", "0", "9">>, <<"0", "0", "0", "0", "2", "1">>,
               <<"0", "0", "0", "1", "1", "8">>, <<"0", "0", "0", "1", "1", "9">>,
               <<"0", "0", "0", "9">>, <<"0", "0", "1">>,
               <<"0", "0", "1", "0", "0", "1">>, <<"0", "0", "1", "0", "0", "3">>,
               <<"0", "0", "2">>}}

\* The pools of the lists selectBestPool is handed: pools of the pair of
\* K1 with and without reserves, and a pool of another pair.
ListedPools ==
  {Pool(PoolIdOf(K1), K1[1], K1[2], fee, 1, b[1], b[2], "resolve") :
     fee \in {500, 3000}, b \in {<<0, 0>>, <<1, 2>>, <<2, 1>>, <<2, 2>>}}
    \cup {Pool(PoolIdOf(K2), K2[1], K2[2], 500, 1, 2, 2, "resolve")}

RECURSIVE ListsOfLen(_)
ListsOfLen(n) ==
  IF n = 0 THEN {<<>>}
  ELSE {Append(l, p) : l \in ListsOfLen(n - 1), p \in ListedPools}

\* A call of selectBestPool.
SelectCall ==
  /\ call = NoCall
  /\ \E n \in 0..MaxListLen, pair \in {<<K1[1], K1[2]>>, <<K1[2], K1[1]>>, <<K2[2], K2[1]>>} :
       \E poolsList \in ListsOfLen(n) :
         call' = [fn |-> "selectBestPool", ft |-> pair[1], tt |-> pair[2],
                  poolsList |-> poolsList,
                  run |-> SelectRun(pair[1], pair[2], poolsList)]
  /\ UNCHANGED <<envVars, discoveryVars, opVars, appVars>>

\* A call of addLiquidity, on its own.
AddLiquidityCall ==
  /\ call = NoCall
  /\ \E pool \in DepositPools, amount0, amount1 \in DepositAmounts, fails0, fails1 \in BOOLEAN :
       LET run == addLiquidity(pool, amount0, amount1, fails0, fails1)
       IN  call' = [fn |-> "addLiquidity", pool |-> pool, amount0 |-> amount0,
                    amount1 |-> amount1, fails0 |-> fails0, fails1 |-> fails1,
                    out |-> run.out, error |-> run.error]
  /\ UNCHANGED <<envVars, discoveryVars, opVars, appVars>>

ReadNext ==
  \/ ResolveCall
  \/ DecimalsCall
  \/ BalanceCall
  \/ LiquidityCall
  \/ BaseUnitsCall
  \/ EstimateCall
  \/ ProbeCall
  \/ CanonCall
  \/ AddLiquidityCall
  \/ SelectCall

ReadSpec == ReadInit /\ [][ReadNext]_vars

\* The pool of the session as the view holds it at an operation: empty, or
\* with liquidity and reserves.
OpPoolStates == {<<0, 0, 0>>, <<2000, 2000, 2000>>, <<2000, 4000, 1000>>, <<2000, 1000, 2000>>}
OpPools ==
  {Pool(PoolIdOf(K1), K1[1], K1[2], K1[3], s[1], s[2], s[3], "resolve") : s \in OpPoolStates}

\* The amounts typed into the forms.
OpAmounts ==
  {Amount("finite", FALSE, 0, <<>>), Amount("finite", FALSE, 0, <<"0", "0", "1">>),
   Amount("finite", FALSE, 0, <<"0", "0", "2">>), Amount("finite", FALSE, 1, <<>>),
   Amount("NaN", FALSE, 0, <<>>)}

\* decimalsReads after the reads of one operation.
Counted(reads) ==
  [t \in OpTokens |-> decimalsReads[t] + Cardinality({i \in DOMAIN reads : reads[i] = t})]

\* The swap form computes an estimate.
QuoteOp ==
  /\ opsDone < MaxOps
  /\ \E pool \in OpPools, zeroForOne, fails \in BOOLEAN, fromAmount \in OpAmounts :
       LET fromToken == IF zeroForOne THEN pool.token0 ELSE pool.token1
           toToken == IF zeroForOne THEN pool.token1 ELSE pool.token0
           run == estimateSwapOutput(fromToken, toToken, fromAmount, <<pool>>,
                                     get_decimals, fails)
       IN  /\ call' = [fn |-> "estimateSwapOutput", pool |-> pool, fromToken |-> fromToken,
                       fromAmount |-> fromAmount, out |-> run.out]
           /\ decimalsReads' = Counted(IF run.read THEN <<fromToken>> ELSE <<>>)
  /\ opsDone' = opsDone + 1
  /\ UNCHANGED <<envVars, discoveryVars, appVars>>

\* A call of addLiquidity.
AddLiquidityOp ==
  /\ opsDone < MaxOps
  /\ \E pool \in OpPools, amount0, amount1 \in OpAmounts, fails0, fails1 \in BOOLEAN :
       LET run == addLiquidity(pool, amount0, amount1, fails0, fails1)
       IN  /\ call' = [fn |-> "addLiquidity", pool |-> pool, amount0 |-> amount0,
                       amount1 |-> amount1, out |-> run.out]
           /\ decimalsReads' = Counted(run.reads)
  /\ opsDone' = opsDone + 1
  /\ UNCHANGED <<envVars, discoveryVars, appVars>>

\* A call of swap.
SwapOp ==
  /\ opsDone < MaxOps
  /\ \E pool \in OpPools, amount \in OpAmounts, zeroForOne, fails \in BOOLEAN :
       LET run == swap(pool, amount, zeroForOne, fails)
       IN  /\ call' = [fn |-> "swap", pool |-> pool, amount |-> amount,
                       zeroForOne |-> zeroForOne, out |-> run.out]
           /\ decimalsReads' = Counted(run.reads)
  /\ opsDone' = opsDone + 1
  /\ UNCHANGED <<envVars, discoveryVars, appVars>>

\* A session starts with the discovered pool on the ledger and no read made.
OpsInit == ReadInit /\ ledger[K1] = "live"

OpsNext == QuoteOp \/ AddLiquidityOp \/ SwapOp

OpsSpec == OpsInit /\ [][OpsNext]_vars

\* ------------------------------------------------------------------------
\* The event scan of the earlier getAllPools (the second copy of the module)
\* ------------------------------------------------------------------------
\* The body of its loop over filteredEvents: the pool one entry adds, <<>>
\* when the entry is skipped (continue) or its processing throws. The tags
\* are tested in one spelling, the pair is read in event order.
LegacyProcessEvent(event, failId, failData) ==
  IF ~event.decodes THEN <<>>
  ELSE LET data == event.value
           action == InnerField(data, "action")
           dataField == InnerField(data, "data")
       IN  IF data.type # "tuple" THEN <<>>
           ELSE IF action.type \notin {"ascii", "string-ascii"} \/ action.value # "create-pool"
           THEN <<>>
           ELSE IF dataField.type # "tuple" THEN <<>>
           ELSE IF failId THEN <<>>
           ELSE LET token0 == InnerField(dataField, "token-0").value
                    token1 == InnerField(dataField, "token-1").value
                    fee == InnerField(dataField, "fee").value
                    idResult == GetPoolIdResp(<<token0, token1, fee>>)
                    idOk == IF idResult.type = "response-ok" THEN idResult.value ELSE idResult
                    poolIdCV == IF idOk.type = "optional-some" THEN idOk.value ELSE idOk
                    poolDataJSON == GetPoolDataResp(poolIdCV.value)
                IN  IF poolIdCV.type # "buffer" THEN <<>>
                    ELSE IF failData THEN <<>>
                    ELSE IF \/ poolDataJSON.type # "response-ok"
                            \/ poolDataJSON.value.type # "optional-some"
                            \/ poolDataJSON.value.value.type # "tuple"
                    THEN <<>>
                    ELSE LET poolData == poolDataJSON.value.value.value
                         IN  <<Pool(poolIdCV.value, token0, token1, fee,
                                    poolData["liquidity"].value, poolData["balance-0"].value,
                                    poolData["balance-1"].value, "event-read")>>

\* The logs the earlier scan is run on: entries of interest at the first two
\* places, noise elsewhere.
LegacyLogs ==
  {[i \in 1..n |-> IF i = 1 THEN first ELSE IF i = 2 THEN second ELSE "noise"] :
     n \in {0, 2, 50, 62}, first \in {"noise", "bad", "swap", "A", "L"},
     second \in {"noise", "L"}}

\* event.event_index of an entry: its index among the events of its transaction.
EventIndexes == {0, 1}

LegacyFetchPage ==
  /\ pc = "fetch"
  /\ Len(requests) < MaxRequests
  /\ \E outcome \in FetchOutcomes : PageFetched(outcome)
  /\ requests' = Append(requests, offset)
  /\ UNCHANGED <<envVars, helperVars, offset, skipped, pools, result, candidates, sweepVars, repairVars>>

\* One iteration of the loop over filteredEvents: a pool that was built is
\* pushed and offset becomes the entry's event_index.
LegacyHandleEvent ==
  /\ pc = "events"
  /\ queue # <<>>
  /\ \E failId, failData \in BOOLEAN, event_index \in EventIndexes :
       LET built == LegacyProcessEvent(Head(queue), failId, failData)
       IN  /\ pools' = pools \o built
           /\ skipped' = IF built = <<>> THEN skipped + 1 ELSE skipped
           /\ offset' = IF built = <<>> THEN offset ELSE event_index
  /\ queue' = Tail(queue)
  /\ UNCHANGED <<envVars, helperVars, pc, done, requests, fetchFailed, result, candidates,
                 sweepVars, repairVars>>

\* The end of the page: the loop test, with offset as the entries left it.
LegacyEndPage ==
  /\ pc = "events"
  /\ queue = <<>>
  /\ pc' = IF done THEN "scanned" ELSE "fetch"
  /\ UNCHANGED <<envVars, helperVars, offset, done, queue, requests, fetchFailed, skipped, pools,
                 result, candidates, sweepVars, repairVars>>

LegacyInit == log \in LegacyLogs /\ ledger \in ReadLedgers /\ Idle

LegacyNext == LegacyFetchPage \/ LegacyHandleEvent \/ LegacyEndPage

LegacySpec == LegacyInit /\ [][LegacyNext]_vars

\* ------------------------------------------------------------------------
\* The mock token contract
\* ------------------------------------------------------------------------
\* Responses of the public functions.
Ok(v) == [ok |-> TRUE, value |-> v]
Err(code) == [ok |-> FALSE, value |-> code]

\* The amounts of the calls; the supply the model lets the token reach.
TokenAmounts == 0..MaxSupply

\* ft-mint?: credits the recipient; (err u1) for an amount of 0.
FtMint(amount, recipient) ==
  IF amount = 0 THEN [response |-> Err(1), balances |-> ftBalances, supply |-> ftSupply]
  ELSE [response |-> Ok(TRUE),
        balances |-> [ftBalances EXCEPT ![recipient] = @ + amount],
        supply |-> ftSupply + amount]

\* ft-transfer?: (err u3) for an amount of 0, (err u2) for a transfer to
\* oneself, (err u1) for a balance below the amount.
FtTransfer(amount, sender, recipient) ==
  IF amount = 0 THEN [response |-> Err(3), balances |-> ftBalances]
  ELSE IF sender = recipient THEN [response |-> Err(2), balances |-> ftBalances]
  ELSE IF ftBalances[sender] < amount THEN [response |-> Err(1), balances |-> ftBalances]
  ELSE [response |-> Ok(TRUE),
        balances |-> [ftBalances EXCEPT ![sender] = @ - amount, ![recipient] = @ + amount]]

\* mint: owner-only, then ft-mint?.
Mint ==
  \E caller, recipient \in Principals, amount \in TokenAmounts :
    LET minted == FtMint(amount, recipient)
        response == IF caller # contract_owner THEN Err(100) ELSE minted.response
    IN  /\ ftSupply + amount <= MaxSupply
        /\ tx' = [fn |-> "mint", caller |-> caller, amount |-> amount,
                  recipient |-> recipient, before |-> ftBalances[recipient],
                  response |-> response]
        /\ ftBalances' = IF caller # contract_owner THEN ftBalances ELSE minted.balances
        /\ ftSupply' = IF caller # contract_owner THEN ftSupply ELSE minted.supply
        /\ UNCHANGED <<envVars, discoveryVars, call, opVars, formVars, walletVars>>

\* A transfer that skips the test of tx-sender against sender.
Transfer_AnySender ==
  \E caller, sender, recipient \in Principals, amount \in TokenAmounts :
    LET moved == FtTransfer(amount, sender, recipient)
    IN  /\ tx' = [fn |-> "transfer", caller |-> caller, amount |-> amount,
                  sender |-> sender, recipient |-> recipient,
                  response |-> moved.response]
        /\ ftBalances' = moved.balances
        /\ UNCHANGED <<envVars, discoveryVars, call, opVars, formVars, walletVars, ftSupply>>

\* transfer: tx-sender must be sender, then ft-transfer?; the response of a
\* failed try! is the error of ft-transfer?.
Transfer ==
  \E caller, sender, recipient \in Principals, amount \in TokenAmounts :
    LET moved == FtTransfer(amount, sender, recipient)
    IN  /\ tx' = [fn |-> "transfer", caller |-> caller, amount |-> amount,
                  sender |-> sender, recipient |-> recipient,
                  response |-> IF caller # sender THEN Err(101) ELSE moved.response]
        /\ ftBalances' = IF caller # sender THEN ftBalances ELSE moved.balances
        /\ UNCHANGED <<envVars, discoveryVars, call, opVars, formVars, walletVars, ftSupply>>

TokenInit == ReadInit /\ ledger[K1] = "live"

TokenNext == Mint \/ Transfer

TokenSpec == TokenInit /\ [][TokenNext]_vars

\* ------------------------------------------------------------------------
\* The Swap form
\* ------------------------------------------------------------------------
\* A behaviour of FormSpec is a session of the Swap form: it mounts, the user
\* changes its inputs, and the get-decimals reads of its estimate runs
\* complete, each at any time after its run has started.
MaxChanges == 3

\* The pools prop: the pool of K1, and a pool of mock-token with ext-token.
FormPools ==
  <<Pool(PoolIdOf(K1), K1[1], K1[2], K1[3], 1000000, 1000000, 1000000, "resolve"),
    Pool(PoolIdOf(K2), K2[1], K2[2], K2[3], 1000000, 1000000, 1000000, "resolve")>>

\* uniqueTokens: the options of the From select.
uniqueTokens == {FormPools[i].token0 : i \in 1..Len(FormPools)}
                  \cup {FormPools[i].token1 : i \in 1..Len(FormPools)}

\* acc.push(token) unless acc holds it or it is fromToken.
PushOther(acc, token, ft) ==
  IF token # ft /\ \A i \in 1..Len(acc) : acc[i] # token THEN Append(acc, token) ELSE acc

RECURSIVE TokensFromPools(_, _, _)
TokensFromPools(acc, ps, ft) ==
  IF ps = <<>> THEN acc
  ELSE LET pool == Head(ps)
       IN  IF pool.token0 = ft \/ pool.token1 = ft
           THEN TokensFromPools(PushOther(PushOther(acc, pool.token0, ft), pool.token1, ft),
                                Tail(ps), ft)
           ELSE TokensFromPools(acc, Tail(ps), ft)

\* toTokensList: the options of the To select, in the order of the pools.
toTokensList(ft) == TokensFromPools(<<>>, FormPools, ft)

\* The amounts the user types.
FormAmounts == {0, 1, 3}
AmountOf(n) == Amount("finite", FALSE, n, <<>>)

\* What a run of estimateSwapOutput has done when its effect ends, run being
\* the run up to its end and best the pool it selected: up to its await the
\* run is synchronous, so a run that returns or throws before the read has
\* acted on the form (shown), and a run that reaches the await waits in
\* flight with the fromToken, toToken and fromAmount of its render (f).
Started(f, shown, inFlight, lost, run, best) ==
  IF run.read
  THEN [form |-> [shown EXCEPT !.selectedPoolFee = best[1].fee],
        runs |-> Append(inFlight, [fromToken |-> f.fromToken, toToken |-> f.toToken,
                                   fromAmount |-> f.fromAmount]),
        lost |-> lost]
  ELSE IF best = <<>>
  THEN [form |-> [shown EXCEPT !.selectedPoolFee = NaN,
                               !.estimatedToAmount = run.out.value.estimate,
                               !.disabledReason = run.out.value.reason],
        runs |-> inFlight, lost |-> lost]
  ELSE IF run.out.ok
  THEN [form |-> [shown EXCEPT !.selectedPoolFee = best[1].fee,
                               !.estimatedToAmount = run.out.value.estimate,
                               !.disabledReason = run.out.value.reason],
        runs |-> inFlight, lost |-> lost]
  ELSE [form |-> [shown EXCEPT !.selectedPoolFee = best[1].fee],
        runs |-> inFlight, lost |-> lost + 1]

\* A run of estimateSwapOutput started by the render whose state is f.
StartRun(f, shown, inFlight, lost) ==
  Started(f, shown, inFlight, lost,
          estimateSwapOutput(f.fromToken, f.toToken, AmountOf(f.fromAmount), FormPools,
                             get_decimals, FALSE),
          selectBestPool(f.fromToken, f.toToken, FormPools))

\* The render that the setToToken of the first effect brings, and its
\* estimate, after the estimate of the render before it (first).
FixToToken(first, list) ==
  StartRun([first.form EXCEPT !.toToken = list[1]], [first.form EXCEPT !.toToken = list[1]],
           first.runs, first.lost)

\* The effects after a render in which fromToken, toToken or fromAmount has
\* changed: the effect that keeps toToken a valid pair, then the estimate; the
\* setToToken of the first brings one more render, and its estimate.
AfterChange(f, fromTokenChanged) ==
  IF /\ fromTokenChanged
     /\ \A i \in 1..Len(toTokensList(f.fromToken)) : toTokensList(f.fromToken)[i] # f.toToken
     /\ Len(toTokensList(f.fromToken)) > 0
  THEN FixToToken(StartRun(f, f, runs, lostRuns), toTokensList(f.fromToken))
  ELSE StartRun(f, f, runs, lostRuns)

\* The first render and its effects.
Mount ==
  /\ ~form.mounted
  /\ \E next \in {AfterChange([form EXCEPT !.mounted = TRUE], TRUE)} :
       form' = next.form /\ runs' = next.runs /\ lostRuns' = next.lost
  /\ UNCHANGED <<envVars, discoveryVars, call, opVars, tokenVars, walletVars, changes>>

\* onChange of the amount input: setFromAmount.
SetFromAmount ==
  /\ form.mounted /\ changes < MaxChanges
  /\ \E amount \in FormAmounts \ {form.fromAmount} :
       \E next \in {AfterChange([form EXCEPT !.fromAmount = amount], FALSE)} :
         form' = next.form /\ runs' = next.runs /\ lostRuns' = next.lost
  /\ changes' = changes + 1
  /\ UNCHANGED <<envVars, discoveryVars, call, opVars, tokenVars, walletVars>>

\* onChange of the From select: setFromToken.
SetFromToken ==
  /\ form.mounted /\ changes < MaxChanges
  /\ \E token \in uniqueTokens \ {form.fromToken} :
       \E next \in {AfterChange([form EXCEPT !.fromToken = token], TRUE)} :
         form' = next.form /\ runs' = next.runs /\ lostRuns' = next.lost
  /\ changes' = changes + 1
  /\ UNCHANGED <<envVars, discoveryVars, call, opVars, tokenVars, walletVars>>

\* The options of the To select, as a set.
ToTokens(ft) == {toTokensList(ft)[i] : i \in 1..Len(toTokensList(ft))}

\* onChange of the To select: setToToken.
SetToToken ==
  /\ form.mounted /\ changes < MaxChanges
  /\ \E token \in ToTokens(form.fromToken) \ {form.toToken} :
       \E next \in {AfterChange([form EXCEPT !.toToken = token], FALSE)} :
         form' = next.form /\ runs' = next.runs /\ lostRuns' = next.lost
  /\ changes' = changes + 1
  /\ UNCHANGED <<envVars, discoveryVars, call, opVars, tokenVars, walletVars>>

\* What the run ends with when its get-decimals read has completed.
RunOutcome(run, fails) ==
  estimateSwapOutput(run.fromToken, run.toToken, AmountOf(run.fromAmount), FormPools,
                     get_decimals, fails).out

\* The sequence s without its element i.
Without(s, i) == SubSeq(s, 1, i - 1) \o SubSeq(s, i + 1, Len(s))

\* The get-decimals read of a run in flight completes, and the run goes on to
\* its end: it sets the estimate and the reason it computed from its own
\* inputs, or ends with the exception of the read.
CompleteRead ==
  /\ \E i \in 1..Len(runs), fails \in BOOLEAN :
       \E out \in {RunOutcome(runs[i], fails)} :
         /\ form' = IF out.ok
                    THEN [form EXCEPT !.estimatedToAmount = out.value.estimate,
                                      !.disabledReason = out.value.reason]
                    ELSE form
         /\ lostRuns' = IF out.ok THEN lostRuns ELSE lostRuns + 1
         /\ runs' = Without(runs, i)
  /\ UNCHANGED <<envVars, discoveryVars, call, opVars, tokenVars, walletVars, changes>>

FormInit == ReadInit /\ ledger[K1] = "live"

FormNext == Mount \/ SetFromAmount \/ SetFromToken \/ SetToToken \/ CompleteRead

FormSpec == FormInit /\ [][FormNext]_vars

\* ------------------------------------------------------------------------
\* useStacks: the wallet session and the transaction handlers
\* ------------------------------------------------------------------------
\* A behaviour of WalletSpec is a session of one useStacks hook: the page
\* loads and initSession runs, the user connects and disconnects, and calls
\* the handlers; a handler whose builder reads get-decimals goes on when the
\* read has completed.
MaxCalls == 2

\* What a UserSession may hold for a user: a profile with a testnet address,
\* or a profile without any address.
UserDatas == {"ST1USER", "no-address"}

\* getUserAddress: the address of userData, null if there is none.
getUserAddress(data) == IF data \in {Null, "no-address"} THEN Null ELSE data

\* uintCV(n); it throws on a negative number.
uintCV(n) == IF n >= 0 THEN Returned(n) ELSE Thrown

\* mintToken: the options of the mint transaction.
mintToken(tokenContract, amount, recipient) ==
  IF uintCV(amount).ok /\ isPrincipal(recipient)
  THEN Returned([functionName |-> "mint", functionArgs |-> <<amount, recipient>>])
  ELSE Thrown

\* removeLiquidity: the options of the remove-liquidity transaction.
removeLiquidity(pool, liquidity) ==
  IF uintCV(liquidity).ok
  THEN Returned([functionName |-> "remove-liquidity",
                 functionArgs |-> <<pool.token0, pool.token1, pool.fee, liquidity>>])
  ELSE Thrown

\* The pool the handlers are called with, and the amounts: 0, 0.001, 1, and
\* for the handlers that take integers -1, 0, 1.
WalletPool == Pool(PoolIdOf(K1), K1[1], K1[2], K1[3], 2000, 2000, 2000, "resolve")
WalletAmounts ==
  {Amount("finite", FALSE, 0, <<>>), Amount("finite", FALSE, 0, <<"0", "0", "1">>),
   Amount("finite", FALSE, 1, <<>>)}
WalletUnits == {-1, 0, 1}

\* The page loads: the first render of the hook, and initSession up to its
\* end or to its await of handlePendingSignIn.
InitSession ==
  /\ page = "loading"
  /\ page' = IF userSession.state = "pending" THEN "signingIn" ELSE "ready"
  /\ userData' = IF userSession.state = "signedIn" THEN userSession.data ELSE userData
  /\ UNCHANGED <<envVars, discoveryVars, call, opVars, tokenVars, formVars,
                 userSession, pendingCalls, handled, handlerCalls>>

\* handlePendingSignIn has completed: setUserData, or the catch of initSession.
SignInDone ==
  /\ page = "signingIn"
  /\ page' = "ready"
  /\ \E ok \in BOOLEAN :
       IF ok /\ userSession.state = "pending"
       THEN /\ userData' = userSession.data
            /\ userSession' = [userSession EXCEPT !.state = "signedIn"]
       ELSE UNCHANGED <<userData, userSession>>
  /\ UNCHANGED <<envVars, discoveryVars, call, opVars, tokenVars, formVars,
                 pendingCalls, handled, handlerCalls>>

\* connectWallet, the user finishing the dialog, and onFinish: the session
\* holds the user, signed in or with the sign-in pending, and the page is
\* loaded again, which ends whatever ran on it.
ConnectWallet ==
  /\ page # "loading"
  /\ \E data \in UserDatas, state \in {"pending", "signedIn"} :
       userSession' = [state |-> state, data |-> data]
  /\ userData' = Null
  /\ page' = "loading"
  /\ pendingCalls' = <<>>
  /\ UNCHANGED <<envVars, discoveryVars, call, opVars, tokenVars, formVars,
                 handled, handlerCalls>>

\* disconnectWallet: signUserOut and setUserData(null).
disconnectWallet ==
  /\ page # "loading"
  /\ userSession' = SignedOut
  /\ userData' = Null
  /\ UNCHANGED <<envVars, discoveryVars, call, opVars, tokenVars, formVars,
                 page, pendingCalls, handled, handlerCalls>>

\* The end of a handler call: the request it opened with openContractCall,
\* or the alert of its catch; calledAs is userData when the handler was
\* called, at is userData when it ended.
Ended(fn, calledAs, request) ==
  [fn |-> fn, calledAs |-> calledAs, request |-> request, at |-> userData]

\* A handler whose builder returns or throws without waiting for a read: the
\* test of userData, the builder, and openContractCall or the catch.
HandleNow(fn, built) ==
  /\ handled' = Append(handled, Ended(fn, userData, userData # Null /\ built.ok))
  /\ handlerCalls' = handlerCalls + 1
  /\ UNCHANGED <<envVars, discoveryVars, call, opVars, tokenVars, formVars,
                 userSession, userData, page, pendingCalls>>

\* A handler whose builder has got as far as its get-decimals read: the call
\* waits for the read.
HandleLater(fn, amount0, amount1, zeroForOne) ==
  /\ userData # Null
  /\ pendingCalls' = Append(pendingCalls, [fn |-> fn, calledAs |-> userData, amount0 |-> amount0,
                                           amount1 |-> amount1, zeroForOne |-> zeroForOne])
  /\ handlerCalls' = handlerCalls + 1
  /\ UNCHANGED <<envVars, discoveryVars, call, opVars, tokenVars, formVars,
                 userSession, userData, page, handled>>

\* The page is loaded and shows its forms.
CanCall == page # "loading" /\ handlerCalls < MaxCalls

handleCreatePool ==
  /\ CanCall
  /\ \E token0, token1 \in {K1[1], K1[2], NotAPrincipal} :
       HandleNow("handleCreatePool", createPool(token0, token1, FEES[1]))

handleRemoveLiquidity ==
  /\ CanCall
  /\ \E liquidity \in WalletUnits :
       HandleNow("handleRemoveLiquidity", removeLiquidity(WalletPool, liquidity))

\* handleMint: without an address of the user the builder is not called.
handleMint ==
  /\ CanCall
  /\ \E amount \in WalletUnits :
       HandleNow("handleMint",
                 IF getUserAddress(userData) = Null THEN Thrown
                 ELSE mintToken(K1[1], amount, getUserAddress(userData)))

\* handleSwap: swap throws on an amount that is not positive before it reads.
handleSwap ==
  /\ CanCall
  /\ \E amount \in WalletAmounts, zeroForOne \in BOOLEAN :
       IF userData = Null \/ IsZero(amount)
       THEN HandleNow("handleSwap", Thrown)
       ELSE HandleLater("handleSwap", amount, amount, zeroForOne)

\* handleAddLiquidity: addLiquidity throws on a zero amount before it reads.
handleAddLiquidity ==
  /\ CanCall
  /\ \E amount0, amount1 \in WalletAmounts :
       IF userData = Null \/ IsZero(amount0) \/ IsZero(amount1)
       THEN HandleNow("handleAddLiquidity", Thrown)
       ELSE HandleLater("handleAddLiquidity", amount0, amount1, TRUE)

\* What the builder of a waiting call ends with, the reads failing or not.
Built(pending, fails0, fails1) ==
  IF pending.fn = "handleSwap"
  THEN swap(WalletPool, pending.amount0, pending.zeroForOne, fails0).out
  ELSE addLiquidity(WalletPool, pending.amount0, pending.amount1, fails0, fails1).out

\* The reads of a waiting call have completed: the builder returns and the
\* handler calls openContractCall, or the builder throws and the catch of the
\* handler shows the message.
BuilderDone ==
  /\ \E i \in 1..Len(pendingCalls), fails0, fails1 \in BOOLEAN :
       /\ handled' = Append(handled, Ended(pendingCalls[i].fn, pendingCalls[i].calledAs,
                                           Built(pendingCalls[i], fails0, fails1).ok))
       /\ pendingCalls' = Without(pendingCalls, i)
  /\ UNCHANGED <<envVars, discoveryVars, call, opVars, tokenVars, formVars,
                 userSession, userData, page, handlerCalls>>

WalletInit == ReadInit /\ ledger[K1] = "live"

WalletNext ==
  \/ InitSession
  \/ SignInDone
  \/ ConnectWallet
  \/ disconnectWallet
  \/ handleCreatePool
  \/ handleSwap
  \/ handleAddLiquidity
  \/ handleRemoveLiquidity
  \/ handleMint
  \/ BuilderDone

WalletSpec == WalletInit /\ [][WalletNext]_vars

\* ------------------------------------------------------------------------
\* Claims
\* ------------------------------------------------------------------------
\* The PoolKey of a record: the pair in canonical order, and the fee.
PoolKeyOf(p) == <<Canon(p.token0, p.token1), p.fee>>

KeysOf(ps) == {PairKey(ps[i]) : i \in 1..Len(ps)}

\* C1: the list getAllPools returns holds at most one record per PoolKey, on
\* the merge / dedup / repair path and on the path that returns the sweep.
C1_OneRecordPerPoolKey ==
  pc = "done" =>
    \A i, j \in 1..Len(result) : i # j => PoolKeyOf(result[i]) # PoolKeyOf(result[j])

\* The records of a list that carry the key.
WithKey(ps, key) == {i \in 1..Len(ps) : PairKey(ps[i]) = key}

\* The id is a hex string: an optional 0x, then one or more hex digits.
HexLike(id) ==
  \E n \in 1..Len(id) :
    /\ \/ n = Len(id)
       \/ n + 2 = Len(id) /\ id[1] = "0" /\ id[2] = "x"
    /\ \A i \in (Len(id) - n + 1)..Len(id) : id[i] \in HexDigits

\* C2: in the merge step a candidate is replaced by the sweep's record of its
\* key exactly when the sweep has one and the candidate looks like a fallback
\* (no hex id, or both balances zero); every other candidate is unchanged.
C2_MergeReplacesFallbacks ==
  pc = "dedup" =>
    /\ Len(pools) = Len(candidates)
    /\ \A i \in 1..Len(candidates) :
         LET c == candidates[i]
             auth == WithKey(directPools, PairKey(c))
             fallback == ~HexLike(c.id) \/ (c.balance0 = 0 /\ c.balance1 = 0)
         IN  IF auth # {} /\ fallback
             THEN pools[i].src = "sweep" /\ \E a \in auth : pools[i] = directPools[a]
             ELSE pools[i] = c /\ c.src # "sweep"

\* C2 witness: after a merge, one candidate with a synthetic id was replaced
\* by the sweep's record and one with a hex id and reserves, whose key the
\* sweep also has, was left as it was.
C2_Witness ==
  /\ pc = "dedup"
  /\ \E i, j \in 1..Len(candidates) :
       /\ ~HexLike(candidates[i].id) /\ pools[i].src = "sweep"
       /\ HexLike(candidates[j].id) /\ candidates[j].balance0 > 0
       /\ WithKey(directPools, PairKey(candidates[j])) # {}
       /\ pools[j] = candidates[j]

\* C3: the dedup step keeps one record per key, and a record with a hex id
\* whenever one of the merged records of the key has a hex id.
C3_DedupPrefersHexId ==
  (pc = "repair" /\ repairIdx = 1) =>
    /\ KeysOf(deduped) = KeysOf(pools)
    /\ \A key \in KeysOf(pools) :
         /\ Cardinality(WithKey(deduped, key)) = 1
         /\ \A d \in WithKey(deduped, key) :
              /\ \E i \in WithKey(pools, key) : pools[i] = deduped[d]
              /\ (\E i \in WithKey(pools, key) : HexLike(pools[i].id)) => HexLike(deduped[d].id)

\* C3 witness: a key with a synthetic record first and a hex record later,
\* deduplicated to the hex record.
C3_Witness ==
  /\ pc = "repair" /\ repairIdx = 1
  /\ \E i, j \in 1..Len(pools) :
       /\ i < j /\ PairKey(pools[i]) = PairKey(pools[j])
       /\ ~HexLike(pools[i].id) /\ HexLike(pools[j].id)
       /\ \E d \in 1..Len(deduped) : deduped[d] = pools[j]

\* C4: in the final repair pass every deduplicated record without a hex id
\* gets exactly one resolvePoolByPair call, and is replaced by what the call
\* returned or kept when it returned nothing (always so when the ledger has
\* no pool under the key); a record with a hex id gets no call and is
\* returned unchanged.
C4_RepairResolvesOnce ==
  (pc = "done" /\ candidates # <<>>) =>
    /\ Len(result) = Len(unrepaired)
    /\ \A i \in 1..Len(unrepaired) :
         LET d == unrepaired[i]
         IN  IF HexLike(d.id)
             THEN attempts[i] = 0 /\ result[i] = d
             ELSE /\ attempts[i] = 1
                  /\ result[i] = IF resolves[i] # <<>> THEN resolves[i][1] ELSE d
                  /\ resolves[i] # <<>> =>
                       /\ HexLike(resolves[i][1].id)
                       /\ PoolKeyOf(resolves[i][1]) = PoolKeyOf(d)
                  /\ KindOf(PairKey(d)) = "absent" => result[i] = d

\* C4 witness: a returned list in which one record was resolved to a hex id
\* by the repair pass and another, with a hex id already, was not touched.
C4_Witness ==
  /\ pc = "done" /\ candidates # <<>>
  /\ \E i, j \in 1..Len(unrepaired) :
       /\ ~HexLike(unrepaired[i].id) /\ attempts[i] = 1 /\ result[i].src = "resolve"
       /\ HexLike(unrepaired[j].id) /\ attempts[j] = 0 /\ result[j] = unrepaired[j]

\* C5: getAllPoolsDirect runs once per discovery run; with no candidate its
\* list is returned as it is, with no merge, dedup or repair; with candidates
\* it only serves as a lookup, so the result has the keys of the candidates.
C5_SweepOnceAndDirectReturn ==
  /\ sweepRuns <= 1
  /\ pc = "done" =>
       /\ sweepRuns = 1
       /\ IF pools = <<>>
          THEN result = directPools /\ candidates = <<>> /\ unrepaired = <<>>
          ELSE KeysOf(result) = KeysOf(candidates) /\ Len(result) <= Len(candidates)

\* C5 witness: a run whose scan found no candidate and that returned the
\* non-empty list of the sweep.
C5_Witness ==
  pc = "done" /\ pools = <<>> /\ result # <<>> /\ result = directPools

\* C6: every pool the sweep found on the ledger (a known pair and fee whose
\* pool exists and whose reads succeeded) has a record in the returned list.
C6_SweepPoolsAreReturned ==
  pc = "done" =>
    \A d \in 1..Len(directPools) :
      \E r \in 1..Len(result) : PoolKeyOf(result[r]) = PoolKeyOf(directPools[d])

\* C7: no returned record has a zero balance on exactly one side.
C7_NoInconsistentReserves ==
  pc = "done" =>
    \A r \in 1..Len(result) : (result[r].balance0 = 0) <=> (result[r].balance1 = 0)

\* C8: the page requests go to the offsets 0, 50, 100, ... in this order;
\* every request but the last returned a full page of 50; and a scan without
\* a transport failure issues exactly floor(N / 50) + 1 requests.
C8_PageRequests ==
  /\ \A i \in 1..Len(requests) : requests[i] = (i - 1) * PageSize
  /\ \A i \in 1..(Len(requests) - 1) : Len(log) - requests[i] >= PageSize
  /\ (pc \notin {"fetch", "events"} /\ ~fetchFailed) =>
       Len(requests) = (Len(log) \div PageSize) + 1

\* C8 witness: a log of 62 entries scanned with two requests, at 0 and at 50.
C8_Witness ==
  pc = "scanned" /\ ~fetchFailed /\ Len(log) = 62 /\ requests = <<0, 50>>

ScanIsOver == pc \in {"scanned", "sweep", "dedup", "repair", "done"}

\* C9: a failing page request ends the scan without raising: no page is
\* requested after it, the candidates of the earlier pages stay in pools
\* through the sweep, all of them enter the merge, and each of their keys has
\* a record in the returned list.
C9_FetchFailureKeepsCandidates ==
  /\ [](fetchFailed => ScanIsOver)
  /\ []((fetchFailed /\ pc = "done") => KeysOf(candidates) \subseteq KeysOf(result))
  /\ [][/\ (~fetchFailed /\ fetchFailed') =>
             (pools' = pools /\ pc' = "scanned" /\ requests' = Append(requests, offset))
        /\ fetchFailed => (fetchFailed' /\ requests' = requests)
        /\ (fetchFailed /\ pc' = "sweep") => pools' = pools
        /\ (fetchFailed /\ pc = "sweep" /\ pc' = "dedup") =>
             (candidates' = pools /\ Len(pools') = Len(pools))]_vars

\* C9 witness: the request of page 2 failed, and the candidate of page 1 is
\* in the returned list.
C9_Witness ==
  /\ pc = "done" /\ fetchFailed /\ requests = <<0, 50>>
  /\ candidates # <<>> /\ KeysOf(candidates) = KeysOf(result)

CreatePoolEntries == {i \in 1..Len(log) : log[i] \in {"A", "B", "C"}}
SkippedEntries == {i \in 1..Len(log) : log[i] \in {"bad", "swap"}}

\* C10: an entry whose value does not decode adds no candidate, leaves the
\* candidates found so far and the scan position as they are, and the scan
\* goes on with the next entry; so a scan without transport failure yields
\* one candidate per create-pool entry of the log, whatever else it holds.
C10_DecodeFailureSkipsEntry ==
  /\ []((pc \in {"scanned", "sweep"} /\ ~fetchFailed) =>
          (Len(pools) = Cardinality(CreatePoolEntries) /\ skipped = Cardinality(SkippedEntries)))
  /\ [][(pc = "events" /\ queue # <<>> /\ ~Head(queue).decodes) =>
          /\ pools' = pools
          /\ queue' = Tail(queue)
          /\ pc' = "events" /\ done' = done /\ offset' = offset /\ requests' = requests]_vars

\* C10 witness: the first entry of the log does not decode, and the scan has
\* the candidates of the second entry and of the first entry of page 2.
C10_Witness ==
  /\ pc = "scanned" /\ ~fetchFailed /\ Len(log) > PageSize
  /\ log[1] = "bad" /\ log[2] = "A" /\ log[PageSize + 1] = "C"
  /\ Len(pools) = 2 /\ skipped = 1

\* The positions of a run of getAllPools; none of them is an exit by exception.
RunPositions == {"fetch", "events", "scanned", "sweep", "dedup", "repair", "done"}

\* The steps a run can still take, at most: the pages left to request with
\* their entries, the probes of the sweep, the dedup and the repair pass.
PagesLeft == ((Len(log) - offset) \div PageSize) + 1
AfterScan == 4 + Len(log) + Len(Probes)
StepsLeft ==
  CASE pc = "done" -> 0
    [] pc = "repair" -> 1 + (Len(deduped) + 1 - repairIdx)
    [] pc = "dedup" -> 2 + Len(pools)
    [] pc = "sweep" -> 3 + Len(log) + (Len(Probes) + 1 - probeIdx)
    [] pc = "scanned" -> AfterScan
    [] pc = "events" -> AfterScan + 1 + (PagesLeft - 1) * (PageSize + 2) + Len(queue) + 1
    [] pc = "fetch" -> AfterScan + 1 + PagesLeft * (PageSize + 2)
    [] OTHER -> 0

\* C11: getAllPools never raises: whatever page requests fail, whatever
\* read-only calls throw and whatever entries do not decode, the run stays in
\* the positions of the function, gets closer to its return with every step,
\* and returns a list of pool records (possibly empty).
C11_DiscoveryNeverRaises ==
  /\ [](pc \in RunPositions)
  /\ [](StepsLeft >= 0)
  /\ [][StepsLeft' < StepsLeft]_vars
  /\ [](pc = "done" =>
          \A r \in 1..Len(result) :
            /\ Len(result[r].id) > 0
            /\ result[r].token0 # result[r].token1)

\* C11 witness: a run that returned although a page request failed and an
\* entry of the log did not decode.
C11_Witness ==
  pc = "done" /\ fetchFailed /\ skipped > 0 /\ log[1] = "bad"

\* Every ordered pair of two different known tokens with every known fee:
\* both orders of every unordered pair.
AllProbeKeys ==
  {<<knownTokens[ab[1]], knownTokens[ab[2]], FEES[f]>> :
     ab \in {x \in (1..Len(knownTokens)) \X (1..Len(knownTokens)) : x[1] # x[2]},
     f \in 1..Len(FEES)}

\* C12: the sweep probes every pair of known tokens with every fee; a probe
\* that fails ends neither the sweep nor drops a record found before it, the
\* next probe is issued whatever the probe did; the id lookup is issued only
\* after pool-exists answered true and the state fetch only after the id
\* lookup returned; a probe whose three calls returned adds its record.
C12_ProbesAreIsolated ==
  /\ []({Probes[i] : i \in 1..Len(Probes)} = AllProbeKeys)
  /\ [](pc \in {"dedup", "repair", "done"} => probeIdx = Len(Probes) + 1)
  /\ [][(pc = "sweep" /\ probeIdx <= Len(Probes)) =>
          LET key == Probes[probeIdx]
              pr == probe'[1]
          IN  /\ pc' = "sweep" /\ probeIdx' = probeIdx + 1
              /\ Len(probe') = 1 /\ pr.key = key
              /\ pr.existsCall # "none"
              /\ pr.idCall # "none" <=> (pr.existsCall = "ok" /\ KindOf(key) # "absent")
              /\ pr.dataCall # "none" <=> pr.idCall = "ok"
              /\ IF pr.dataCall = "ok"
                 THEN /\ Len(directPools') = Len(directPools) + 1
                      /\ SubSeq(directPools', 1, Len(directPools)) = directPools
                      /\ PairKey(directPools'[Len(directPools')]) = key
                      /\ HexLike(directPools'[Len(directPools')].id)
                 ELSE directPools' = directPools]_vars
  /\ [][(pc = "sweep" /\ probeIdx > Len(Probes)) => directPools' = directPools]_vars

\* C12 witness: the probe of a pair's first order threw at pool-exists and
\* added nothing, and the probe of the other order, issued after it, added
\* its record.
C12_Witness ==
  /\ pc = "sweep" /\ probeIdx = 3
  /\ KindOf(Probes[1]) = "live" /\ KindOf(Probes[2]) = "live"
  /\ probe # <<>> /\ probe[1].key = Probes[2] /\ probe[1].dataCall = "ok"
  /\ Len(directPools) = 1 /\ PairKey(directPools[1]) = Probes[2]

\* The key a pair and a fee stand for: the lower principal first.
KeyOfPair(a, b, fee) ==
  IF PrincipalHex(a) <= PrincipalHex(b) THEN <<a, b, fee>> ELSE <<b, a, fee>>

\* C13: resolvePoolByPair returns nothing when a call throws, when the id
\* lookup yields no buffer under its result / optional layers, or when the
\* state fetch yields no tuple; after a missed id lookup the state fetch is not
\* issued; when both reads succeed the record carries the id of the lookup.
C13_ResolveMissesAreNone ==
  call.fn = "resolvePoolByPair" =>
    LET key == KeyOfPair(call.token0In, call.token1In, call.fee)
        kind == KindOf(key)
        idMisses == call.calls.idCall = "throws" \/ kind \in {"absent", "errid"}
        stateMisses == call.calls.dataCall = "throws" \/ kind \in {"errdata", "scalar"}
    IN  /\ idMisses => (call.out = <<>> /\ call.calls.dataCall = "none")
        /\ stateMisses => call.out = <<>>
        /\ (~idMisses /\ ~stateMisses) =>
             /\ call.calls.dataCall = "ok"
             /\ Len(call.out) = 1
             /\ call.out[1].id = PoolIdOf(key) /\ HexLike(call.out[1].id)
             /\ PairKey(call.out[1]) = key

\* C14: an Err answer is never taken for a success: getTokenDecimals raises
\* on Err(v) and returns no number, getTokenBalance does not return v as the
\* balance, and a probe whose pool-exists answered Err(true) does not take
\* the pool to exist.
C14_ErrIsNeverSuccess ==
  /\ (call.fn = "getTokenDecimals" /\ call.json.type = "response-err") => ~call.out.ok
  /\ (call.fn = "getTokenBalance" /\ call.json.type = "response-err" /\ call.out.ok) =>
       call.out.value # call.json.value.value
  /\ (call.fn = "probe" /\ KindOf(call.key) = "errexists") =>
       (call.out = <<>> /\ call.calls.idCall = "none")

\* The other spelling of a tag.
OtherSpelling(tag) ==
  CASE tag = "response-ok" -> "responseOk"
    [] tag = "responseOk" -> "response-ok"
    [] tag = "optional-some" -> "optionalSome"
    [] tag = "optionalSome" -> "optional-some"
    [] tag = "buffer" -> "buff"
    [] tag = "buff" -> "buffer"
    [] OTHER -> tag

RECURSIVE Respelled(_)
\* The same answer with every wrapper and buffer tag in its other spelling.
Respelled(json) ==
  [type |-> OtherSpelling(json.type), k |-> json.k,
   value |-> IF json.k = "obj" THEN Respelled(json.value) ELSE json.value]

\* What a read of the live pool under a key gives.
LiveRecord(key, src) ==
  IF key = K1 THEN Pool(PoolIdOf(key), key[1], key[2], key[3], 6, 5, 7, src)
  ELSE Pool(PoolIdOf(key), key[1], key[2], key[3], 3, 2, 4, src)

\* C15: every read gives the same result for an answer in either spelling of
\* its tags: the decimals, the balance and the user position computed from
\* the respelled answer equal the ones computed from the answer, and the id
\* lookup, the state fetch and the existence check of a pool answered in the
\* other spelling give the record they give in the usual one.
C15_SpellingsAreEquivalent ==
  /\ call.fn = "getTokenDecimals" =>
       getTokenDecimals(Respelled(call.json), call.fails) = call.out
  /\ call.fn = "getTokenBalance" =>
       getTokenBalance(Respelled(call.json), call.fails) = call.out
  /\ call.fn = "getUserLiquidity" =>
       getUserLiquidity(Respelled(call.json), call.fails) = call.out
  /\ (call.fn = "resolvePoolByPair" /\ call.calls.dataCall = "ok") =>
       LET key == KeyOfPair(call.token0In, call.token1In, call.fee)
       IN  KindOf(key) \in {"live", "camel"} => call.out = <<LiveRecord(key, "resolve")>>
  /\ (call.fn = "probe" /\ call.calls.dataCall = "ok") =>
       (KindOf(call.key) \in {"live", "camel"} => call.out = <<LiveRecord(call.key, "sweep")>>)

RECURSIVE PowerOfTen(_)
PowerOfTen(n) == IF n <= 0 THEN 1 ELSE PowerOfTen(n - 1) * 10

RECURSIVE FractionValue(_)
\* The fraction f1 f2 ... fn as the integer f1 * 10^(n-1) + ... + fn.
FractionValue(frac) ==
  IF frac = <<>> THEN 0
  ELSE DigitVal(Head(frac)) * PowerOfTen(Len(frac) - 1) + FractionValue(Tail(frac))

\* The amount times 10^d, truncated: I * 10^d plus the first d digits of the
\* fraction, padded with zeros.
TruncatedUnits(a, d) ==
  LET n == Len(a.frac)
  IN  a.int * PowerOfTen(d)
        + (IF n <= d THEN FractionValue(a.frac) * PowerOfTen(d - n)
           ELSE FractionValue(a.frac) \div PowerOfTen(n - d))

\* C18: toBaseUnits of a finite non-negative amount and decimals d >= 0 is
\* the amount times 10^d with the digits beyond position d dropped; a
\* negative or non-finite amount and a negative decimals raise.
C18_TruncationLaw ==
  call.fn = "toBaseUnits" =>
    IF call.amount.kind = "finite" /\ ~call.amount.neg /\ call.decimals >= 0
    THEN call.out = Returned(TruncatedUnits(call.amount, call.decimals))
    ELSE ~call.out.ok

\* The decimals a get-decimals answer stands for, <<>> if it stands for none.
AnswerDecimals(json, fails) ==
  IF ~fails /\ json.type = "response-ok" /\ json.value.type = "uint"
  THEN <<json.value.value>> ELSE <<>>

\* The reference estimate: rawOut less its fee, never below zero.
ReferenceEstimate(reserveIn, reserveOut, fee, input) ==
  LET rawOut == reserveOut - ((reserveIn * reserveOut) \div (reserveIn + input))
      fees == (rawOut * fee) \div 10000
  IN  IF rawOut - fees > 0 THEN rawOut - fees ELSE 0

\* C19: the estimate is 0, with a reason and without raising, when the input
\* in base units or a reserve is not positive; otherwise it is the reference
\* value; for reserves (1000000, 1000000), fee 500 and input 10000 of token-0
\* it is 9406.
C19_EstimateIsReference ==
  (call.fn = "estimateSwapOutput" /\ AnswerDecimals(call.json, call.fails) # <<>>) =>
    LET x == call.pool.balance0
        y == call.pool.balance1
        a == call.fromAmount
        input == IF a.kind = "finite" /\ ~a.neg
                 THEN TruncatedUnits(a, AnswerDecimals(call.json, call.fails)[1]) ELSE 0
        out == call.run.out
    IN  IF input <= 0 \/ ~(x > 0) \/ ~(y > 0)
        THEN out.ok /\ out.value.estimate = 0 /\ out.value.reason # "none"
        ELSE /\ out.ok
             /\ (x < 1000000 /\ y < 1000000) =>
                  out.value.estimate =
                    IF call.zeroForOne THEN ReferenceEstimate(x, y, call.pool.fee, input)
                    ELSE ReferenceEstimate(y, x, call.pool.fee, input)
             /\ (x = 1000000 /\ y = 1000000 /\ call.pool.fee = 500 /\ input = 10000) =>
                  out.value.estimate = 9406

\* The estimate of a call that got as far as the arithmetic: its reserves are
\* positive and its input in base units is positive.
QuotedInput ==
  IF call.fn = "estimateSwapOutput" /\ call.run.out.ok /\ call.run.read
     /\ call.run.out.value.reason # "Amount too small after decimals conversion"
  THEN <<TruncatedUnits(call.fromAmount, AnswerDecimals(call.json, call.fails)[1])>>
  ELSE <<>>

EstimateAt(input) ==
  SwapOutput(call.pool.balance0, call.pool.balance1, call.pool.fee, call.zeroForOne,
             input).estimate

\* C20 as stated: the estimate is strictly increasing in the input, for fixed
\* positive reserves and a fixed fee.
C20_StrictlyIncreasing ==
  QuotedInput # <<>> =>
    \A b \in (QuotedInput[1] + 1)..(QuotedInput[1] + MaxStep) :
      call.run.out.value.estimate < EstimateAt(b)

\* C20, amended: the estimate never decreases when the input grows, for fixed
\* positive reserves and a fixed fee (the floor of the two divisions lets
\* different inputs share an estimate).
C20_NonDecreasing ==
  QuotedInput # <<>> =>
    /\ call.run.out.value.estimate = EstimateAt(QuotedInput[1])
    /\ \A b \in (QuotedInput[1] + 1)..(QuotedInput[1] + MaxStep) :
         /\ call.run.out.value.estimate <= EstimateAt(b)
         /\ EstimateAt(b - 1) <= EstimateAt(b)

\* C20 witness: an estimate for reserves (1000000, 1000000) that is positive
\* and smaller than the estimate of the next input.
C20_Witness ==
  /\ QuotedInput # <<>> /\ call.pool.balance0 = 1000000 /\ call.pool.balance1 = 1000000
  /\ call.run.out.value.estimate > 0
  /\ call.run.out.value.estimate < EstimateAt(QuotedInput[1] + 1)

\* The pair a createPool call hands to the ledger.
CreatedPair(r) == <<r.value.functionArgs[1], r.value.functionArgs[2]>>

\* The order of a pair stated on its own: the same two tokens, the one with
\* the smaller principal hex first, and the given order on equal hex.
InCanonicalOrder(a, b, c) ==
  /\ c \in {<<a, b>>, <<b, a>>}
  /\ PrincipalHex(c[1]) <= PrincipalHex(c[2])

\* C17: canonicalization of a pair of tokens is order-symmetric and
\* idempotent at the event scanner, at resolvePoolByPair and at createPool,
\* and the three agree on the order of every pair of tokens.
C17_CanonicalizationAgrees ==
  (call.fn = "canonicalize" /\ isPrincipal(call.a) /\ isPrincipal(call.b)) =>
    LET c == call.scan
    IN  /\ InCanonicalOrder(call.a, call.b, c)
        /\ call.resolve = Returned(c)
        /\ call.create.ok /\ CreatedPair(call.create) = c
        /\ ScanCanon(call.b, call.a) = c
        /\ ResolveCanon(call.b, call.a) = Returned(c)
        /\ CreatedPair(createPool(call.b, call.a, call.fee)) = c
        /\ ScanCanon(c[1], c[2]) = c
        /\ ResolveCanon(c[1], c[2]) = Returned(c)
        /\ CreatedPair(createPool(c[1], c[2], call.fee)) = c

\* A pair handed over in the non-canonical order was swapped by all three.
C17_Witness ==
  /\ call.fn = "canonicalize" /\ isPrincipal(call.a) /\ isPrincipal(call.b)
  /\ PrincipalHex(call.a) > PrincipalHex(call.b)
  /\ call.scan = <<call.b, call.a>>
  /\ call.resolve = Returned(<<call.b, call.a>>)
  /\ CreatedPair(call.create) = <<call.b, call.a>>

\* C16: over any sequence of quote, add-liquidity and swap operations at most
\* one get-decimals read is issued per token; every later use of the token's
\* decimals is served without a ledger read.
C16_OneReadPerToken == \A t \in OpTokens : decimalsReads[t] <= 1

\* The output before fees: reserveOut - floor(reserveIn * reserveOut / (reserveIn + input)).
RawOut(reserveIn, reserveOut, input) ==
  reserveOut - ((reserveIn * reserveOut) \div (reserveIn + input))

\* The reserve the input goes into and the reserve the output comes from.
ReserveIn == IF call.zeroForOne THEN call.pool.balance0 ELSE call.pool.balance1
ReserveOut == IF call.zeroForOne THEN call.pool.balance1 ELSE call.pool.balance0

\* C21: applying the fee never increases the swap output and never makes it
\* negative: for positive reserves, a fee in 0..10000 and a positive input,
\* 0 <= estimate <= rawOut (rawOut itself is at most the output reserve).
C21_FeeNeverIncreases ==
  (QuotedInput # <<>> /\ call.pool.fee \in 0..10000) =>
    LET estimate == call.run.out.value.estimate
    IN  /\ 0 <= estimate
        /\ estimate <= ReserveOut
        /\ ~(ReserveIn = 1000000 /\ ReserveOut = 1000000) =>
             estimate <= RawOut(ReserveIn, ReserveOut, QuotedInput[1])

\* C21 witness: a fee took part of a positive output, and a fee of 10000 took
\* all of one.
C21_Witness ==
  /\ QuotedInput # <<>> /\ ReserveIn = 7 /\ ReserveOut = 1000000
  /\ \/ /\ call.pool.fee = 500
        /\ call.run.out.value.estimate > 0
        /\ call.run.out.value.estimate < RawOut(ReserveIn, ReserveOut, QuotedInput[1])
     \/ /\ call.pool.fee = 10000
        /\ RawOut(ReserveIn, ReserveOut, QuotedInput[1]) > 0
        /\ call.run.out.value.estimate = 0

\* The base units of an amount of a deposit: the mock tokens have 6 decimals.
DepositUnits(a) == TruncatedUnits(a, 6)

\* floor(sqrt(n)), for the products of the deposits of the model.
FloorSqrt(n) == CHOOSE r \in 0..2000 : r * r <= n /\ n < (r + 1) * (r + 1)

\* A call of addLiquidity that got as far as the pre-flight check: the
\* amounts are not zero and both decimals were read.
CheckReached ==
  /\ call.fn = "addLiquidity" /\ ~call.fails0 /\ ~call.fails1
  /\ ~IsZero(call.amount0) /\ ~IsZero(call.amount1)

\* The amounts of the call descriptor of add-liquidity.
DescribedAmounts == <<call.out.value.functionArgs[4], call.out.value.functionArgs[5]>>

\* C22: for a pool whose total liquidity is 0 the pre-flight check accepts the
\* deposit exactly when floor(sqrt(amount0Base * amount1Base)) > 1000, and
\* otherwise fails with the too-small error and no call descriptor; a deposit
\* of 900 and 900 base units is rejected.
C22_InitialDepositThreshold ==
  (CheckReached /\ call.pool.liquidity = 0) =>
    LET amount0Base == DepositUnits(call.amount0)
        amount1Base == DepositUnits(call.amount1)
    IN  /\ IF FloorSqrt(amount0Base * amount1Base) > 1000
           THEN call.out.ok /\ DescribedAmounts = <<amount0Base, amount1Base>>
           ELSE ~call.out.ok /\ call.error.kind = "Initial deposit too small"
        /\ (amount0Base = 900 /\ amount1Base = 900) => ~call.out.ok

\* C22 witness: the deposit of 900 and 900 base units into an empty pool was
\* rejected as too small.
C22_Witness ==
  /\ CheckReached /\ call.pool.liquidity = 0
  /\ DepositUnits(call.amount0) = 900 /\ DepositUnits(call.amount1) = 900
  /\ ~call.out.ok /\ call.error.kind = "Initial deposit too small"

\* C23: for a pool whose total liquidity is positive the pre-flight check
\* accepts the deposit exactly when
\* amount1Base >= floor(amount0Base * reserve1 / reserve0); otherwise it fails
\* with a ratio error that names this minimum, and no call descriptor.
C23_RatioCheckIsExact ==
  (CheckReached /\ call.pool.liquidity > 0) =>
    LET amount0Base == DepositUnits(call.amount0)
        amount1Base == DepositUnits(call.amount1)
        minimum == (amount0Base * call.pool.balance1) \div call.pool.balance0
    IN  IF amount1Base >= minimum
        THEN call.out.ok /\ DescribedAmounts = <<amount0Base, amount1Base>>
        ELSE ~call.out.ok /\ call.error = LiquidityError("You need at least", minimum)

\* A pool of the unordered pair the call asked for.
MatchesPair(p) ==
  \/ p.token0 = call.ft /\ p.token1 = call.tt
  \/ p.token0 = call.tt /\ p.token1 = call.ft

HasReserves(p) == p.balance0 > 0 /\ p.balance1 > 0

\* The pools of the list the choice is made among: those of the pair, and of
\* these the ones with both reserves positive if there is one.
Eligible ==
  LET matching == {call.poolsList[i] : i \in {j \in DOMAIN call.poolsList :
                                                 MatchesPair(call.poolsList[j])}}
  IN  IF \E p \in matching : HasReserves(p) THEN {p \in matching : HasReserves(p)}
      ELSE matching

\* C24: selectBestPool returns none exactly when no pool of the list matches
\* the unordered pair; otherwise a pool of the pair, with reserves if a
\* matching pool has reserves, such that no eligible pool has a larger reserve
\* product, and none with the same product a lower fee; the input list is
\* left unchanged.
C24_BestPoolIsBest ==
  call.fn = "selectBestPool" =>
    /\ call.run.arrays.poolsList = call.poolsList
    /\ call.run.best = <<>> <=> Eligible = {}
    /\ call.run.best # <<>> =>
         LET best == call.run.best[1]
         IN  /\ best \in Eligible
             /\ \A p \in Eligible :
                  /\ p.balance0 * p.balance1 <= best.balance0 * best.balance1
                  /\ p.balance0 * p.balance1 = best.balance0 * best.balance1 =>
                       best.fee <= p.fee

\* C24 witness: the list offers a pool without reserves, a pool of another
\* pair and two pools of equal product, the dearer one first; the cheaper one
\* is returned.
C24_Witness ==
  /\ call.fn = "selectBestPool" /\ Len(call.poolsList) = 3
  /\ ~HasReserves(call.poolsList[1]) /\ MatchesPair(call.poolsList[1])
  /\ HasReserves(call.poolsList[2]) /\ MatchesPair(call.poolsList[2])
  /\ HasReserves(call.poolsList[3]) /\ MatchesPair(call.poolsList[3])
  /\ call.poolsList[2].fee = 3000 /\ call.poolsList[3].fee = 500
  /\ call.poolsList[2].balance0 * call.poolsList[2].balance1
       = call.poolsList[3].balance0 * call.poolsList[3].balance1
  /\ call.run.best = <<call.poolsList[3]>>

\* C25: minting on the mock token is permissionless: for every caller, every
\* recipient and every amount, mint succeeds and the recipient's balance as
\* read by get-balance increases by exactly the amount.
C25_MintIsPermissionless ==
  tx.fn = "mint" =>
    /\ tx.response.ok
    /\ ftBalances[tx.recipient] = tx.before + tx.amount

\* C26: a transfer whose transaction sender differs from the sender argument
\* fails with error u101, for every amount and recipient, and leaves every
\* balance and the total supply unchanged.
C26_TransferNeedsSender ==
  [][(tx'.fn = "transfer" /\ tx'.caller # tx'.sender) =>
       (tx'.response = Err(101) /\ ftBalances' = ftBalances /\ ftSupply' = ftSupply)]_vars

\* C26 witness: a transfer by someone else of an amount the sender holds, to
\* a third principal, answered with u101.
C26_Witness ==
  /\ tx.fn = "transfer" /\ tx.caller # tx.sender /\ tx.sender # tx.recipient
  /\ tx.amount > 0 /\ ftBalances[tx.sender] >= tx.amount
  /\ tx.response = Err(101)

\* The offsets requested so far.
Requested == {requests[i] : i \in DOMAIN requests}

\* C27: for every finite event log the event scan terminates, also when a
\* full page holds no create-pool entry or every entry of a page fails: the
\* loop never comes back to request a window it has requested before, and it
\* has stopped after one request per page of the log and one more.
C27_ScanTerminates ==
  /\ pc = "fetch" => offset \notin Requested
  /\ Len(requests) <= Len(log) \div PageSize + 1

\* C28: on the merge / dedup / repair path no candidate key is lost: every
\* (token-0, token-1, fee) key among the candidates of the scan is the key of
\* exactly one record of the returned list, whatever the sweep returned and
\* whether the repair reads succeeded or failed.
C28_NoCandidateKeyLost ==
  (pc = "done" /\ candidates # <<>>) =>
    \A key \in KeysOf(candidates) : Cardinality(WithKey(result, key)) = 1

\* C28 witness: two candidates share a key, the sweep returned a pool, a
\* repair read was made and failed, and the key is once in the result.
C28_Witness ==
  /\ pc = "done" /\ Len(candidates) >= 2 /\ directPools # <<>>
  /\ \E i \in 1..Len(attempts) : attempts[i] > 0 /\ resolves[i] = <<>>
  /\ \E key \in KeysOf(candidates) :
       /\ Cardinality(WithKey(candidates, key)) >= 2
       /\ Cardinality(WithKey(result, key)) = 1

\* What the form shows, and what the estimate of its present inputs is.
Shown == Quote(form.estimatedToAmount, form.disabledReason)
LatestEstimate ==
  estimateSwapOutput(form.fromToken, form.toToken, AmountOf(form.fromAmount), FormPools,
                     get_decimals, FALSE).out.value

\* C29: once every run of estimateSwapOutput has completed, none of them with
\* a failed read, the estimate and the disabled-reason the swap form shows
\* are those of its latest fromToken, toToken and fromAmount, in whatever
\* order the get-decimals reads completed.
C29_LatestEstimateShown ==
  (form.mounted /\ runs = <<>> /\ lostRuns = 0) => Shown = LatestEstimate

\* A handler called with userData null has opened no request.
CallsWithoutUserOpenNothing ==
  \A i \in DOMAIN handled : handled[i].calledAs = Null => ~handled[i].request

\* C30: no wallet transaction request is ever opened while no user is
\* connected: every request a handler has opened with openContractCall was
\* opened with userData set, in every sequence of session initialisation,
\* connect, disconnect and handler calls.
C30_NoRequestWithoutUser ==
  \A i \in DOMAIN handled : handled[i].request => handled[i].at # Null

====
